---------------------------- MODULE Spec2Model ----------------------------
(***************************************************************************)
(* Component store, tool dispatch and agent loops of the component         *)
(* builder (deprecated/app/agent/tools.py, component_agent.py) and the     *)
(* streaming endpoint (app/main.py).                                       *)
(*                                                                         *)
(* Text is modelled as a sequence of fragments: a fragment is a piece of   *)
(* text that the substring checks of the code see as a whole.  A name is   *)
(* a sequence of characters.  The file system is POSIX (os.linesep is      *)
(* "\n").                                                                  *)
(***************************************************************************)
EXTENDS Integers, Sequences, FiniteSets, TLC

VARIABLES
    \* the component store and a direct call of it
    files,          \* generated/components: name -> text of <name>.tsx as stored
    call,           \* the store operation called: [tool, name, code], or NoCall
    result,         \* the dict the last store operation or tool call returned
    before,         \* the store as it was when the operation was called
    created,        \* the names create_component has returned success for
    \* one agent run
    kind,           \* "generate", "edit" or "edit_streaming"
    component_name, \* the run's target
    pc,             \* where the run is
    iteration,
    messages,       \* the transcript
    existing_code,  \* the edit runs' baseline
    remaining,      \* tool_use blocks the loop had not reached when the run ended
    tool_results,
    outcome,        \* the dict returned, or the terminal event
    stops,          \* what each LLM invocation of the run answered
    events,         \* the events edit_component_streaming has yielded
    frames,         \* the SSE frames api_edit_component_stream.generate has yielded
    \* requests served at the same time
    threads,        \* thread -> the store operation it runs and where it is
    \* the pages and the runs of one create_page call
    pages,          \* generated/pages: name -> text of <name>.tsx as stored
    page_runs       \* what each run of the call returned and left in pages

storeVars == <<files, call, result, before, created>>

runVars ==
    <<kind, component_name, pc, iteration, messages, existing_code, remaining,
      tool_results, outcome, stops, events, frames>>

pageVars == <<pages, page_runs>>

vars == <<storeVars, runVars, threads, pageVars>>

-----------------------------------------------------------------------------
(* Bounds of the model *)

MaxCodeLen == 2

-----------------------------------------------------------------------------
(* Text *)

\* The fragments a code argument is made of.
Frag == {"const", "Here is", "\r", "\\uD800"}

Codes == UNION {[1..n -> Frag] : n \in 0..MaxCodeLen}

\* Code with a phrase that only one of the two phrase lists holds.
PhraseCodes == {<<"const", "this component">>, <<"const", "the updated">>}

\* The code the callers of the store pass.
CallCodes == Codes \cup PhraseCodes

\* The characters of a name and the names the callers pass.
Names == {<<>>, <<"B">>, <<"C">>, <<"b">>, <<"D", "/", "B">>}

\* str.isupper() of one character
IsUpper(ch) == ch \in {"B", "C", "D"}

\* str.lower() of one fragment
LowerFrag(f) ==
    CASE f = "Here is" -> "here is"
      [] OTHER -> f

\* code.lower()
Lower(code) == [i \in DOMAIN code |-> LowerFrag(code[i])]

\* phrase in text
Contains(text, phrase) == \E i \in DOMAIN text : text[i] = phrase

\* The phrase lists of create_component and update_component.
CreateProsePhrases ==
    {"here is", "i have created", "i've created", "this component", "## "}

UpdateProsePhrases ==
    {"here is", "i have updated", "i've updated", "the updated", "## "}

\* 'function' not in code_lower and 'const' not in code_lower and '=>' not in code
LacksCodePattern(code) ==
    /\ ~Contains(Lower(code), "function")
    /\ ~Contains(Lower(code), "const")
    /\ ~Contains(code, "=>")

-----------------------------------------------------------------------------
(* Files *)

\* filepath.exists()
Exists(fs, name) == name \in DOMAIN fs

\* The directory of COMPONENTS_PATH / f"{name}.tsx" exists: only
\* COMPONENTS_PATH itself is ever created.
ParentExists(name) == ~Contains(name, "/")

\* The utf-8 codec encodes every character but a lone surrogate.
Encodable(code) == ~Contains(code, "\\uD800")

\* Text written through a file opened with newline=None: "\n" becomes
\* os.linesep, which is "\n".
EncodeText(code) == code

Put(fs, name, bytes) ==
    [n \in DOMAIN fs \cup {name} |-> IF n = name THEN bytes ELSE fs[n]]

\* with open(filepath, 'w', encoding='utf-8') as f: f.write(code)
\* open() creates or truncates the file before write() encodes the text.
WriteFile(fs, name, code) ==
    IF ~ParentExists(name)
    THEN [files |-> fs, raised |-> TRUE]
    ELSE IF ~Encodable(code)
    THEN [files |-> Put(fs, name, <<>>), raised |-> TRUE]
    ELSE [files |-> Put(fs, name, EncodeText(code)), raised |-> FALSE]

\* Text read through a file opened with newline=None: "\r\n" and "\r" are
\* translated to "\n".
RECURSIVE DecodeText(_)
DecodeText(bytes) ==
    IF bytes = <<>> THEN <<>>
    ELSE IF Head(bytes) = "\r"
    THEN IF Len(bytes) >= 2 /\ bytes[2] = "\n"
         THEN <<"\n">> \o DecodeText(Tail(Tail(bytes)))
         ELSE <<"\n">> \o DecodeText(Tail(bytes))
    ELSE <<Head(bytes)>> \o DecodeText(Tail(bytes))

-----------------------------------------------------------------------------
(* Tool results *)

\* {"status": "error", "message": ...}: a message is its kind followed by
\* the values formatted into it.
Error(message) == [status |-> "error", message |-> message]

Success(message, name) ==
    [status |-> "success", message |-> message, component_name |-> name]

NoCall == [tool |-> "none"]
NoResult == [status |-> "none"]

-----------------------------------------------------------------------------
(* The store operations.  Each yields the store afterwards and the dict    *)
(* returned.                                                               *)

\* A check that takes every name
NameInvalid_Never(name) == FALSE

\* not name or not name[0].isupper()
NameInvalid(name) == name = <<>> \/ ~IsUpper(name[1])

CreateLooksLikeProse(code) ==
    \E phrase \in CreateProsePhrases : Contains(Lower(code), phrase)

UpdateLooksLikeProse(code) ==
    \E phrase \in UpdateProsePhrases : Contains(Lower(code), phrase)

CreateTargetTaken_Unchecked(fs, name) == FALSE

\* if filepath.exists(): of create_component
CreateTargetTaken(fs, name) == Exists(fs, name)

UpdateTargetMissing_Unchecked(fs, name) == FALSE

\* if not filepath.exists(): of update_component
UpdateTargetMissing(fs, name) == ~Exists(fs, name)

create_component(fs, name, code) ==
    IF NameInvalid(name)
    THEN [files |-> fs, result |-> Error(<<"NameInvalid">>)]
    ELSE IF CreateLooksLikeProse(code)
    THEN [files |-> fs, result |-> Error(<<"LooksLikeProse">>)]
    ELSE IF LacksCodePattern(code)
    THEN [files |-> fs, result |-> Error(<<"NotRecognizableAsCode">>)]
    ELSE IF CreateTargetTaken(fs, name)
    THEN [files |-> fs,
          result |-> Error(<<"AlreadyExists", name, "Use update_component">>)]
    ELSE LET w == WriteFile(fs, name, code)
         IN  IF w.raised
             THEN [files |-> w.files,
                   result |-> Error(<<"Failed to create component">>)]
             ELSE [files |-> w.files,
                   result |-> Success(<<"created", name>>, name)]

\* update_component with the file written before the code is validated
update_component_WriteFirst(fs, name, code) ==
    IF ~Exists(fs, name)
    THEN [files |-> fs,
          result |-> Error(<<"NotFound", name, "Use create_component">>)]
    ELSE LET w == WriteFile(fs, name, code)
         IN  IF UpdateLooksLikeProse(code)
             THEN [files |-> w.files, result |-> Error(<<"LooksLikeProse">>)]
             ELSE IF LacksCodePattern(code)
             THEN [files |-> w.files,
                   result |-> Error(<<"NotRecognizableAsCode">>)]
             ELSE IF w.raised
             THEN [files |-> w.files,
                   result |-> Error(<<"Failed to update component">>)]
             ELSE [files |-> w.files,
                   result |-> Success(<<"updated", name>>, name)]

update_component(fs, name, code) ==
    IF UpdateLooksLikeProse(code)
    THEN [files |-> fs, result |-> Error(<<"LooksLikeProse">>)]
    ELSE IF LacksCodePattern(code)
    THEN [files |-> fs, result |-> Error(<<"NotRecognizableAsCode">>)]
    ELSE IF UpdateTargetMissing(fs, name)
    THEN [files |-> fs,
          result |-> Error(<<"NotFound", name, "Use create_component">>)]
    ELSE LET w == WriteFile(fs, name, code)
         IN  IF w.raised
             THEN [files |-> w.files,
                   result |-> Error(<<"Failed to update component">>)]
             ELSE [files |-> w.files,
                   result |-> Success(<<"updated", name>>, name)]

\* read_component that reads a missing file as an empty one
read_component_MissingIsEmpty(fs, name) ==
    [files |-> fs,
     result |-> [status |-> "success", component_name |-> name,
                 content |-> IF Exists(fs, name) THEN DecodeText(fs[name])
                             ELSE <<>>]]

read_component(fs, name) ==
    IF ~Exists(fs, name)
    THEN [files |-> fs, result |-> Error(<<"NotFound", name>>)]
    ELSE [files |-> fs,
          result |-> [status |-> "success", component_name |-> name,
                      content |-> DecodeText(fs[name])]]

\* The glob order is the directory's: the components are a set.
list_components(fs) ==
    [files |-> fs,
     result |-> [status |-> "success", components |-> DOMAIN fs,
                 count |-> Cardinality(DOMAIN fs)]]

-----------------------------------------------------------------------------
(* The store called directly, one operation at a time *)

NoRun ==
    /\ kind = "none"
    /\ component_name = <<>>
    /\ pc = "none"
    /\ iteration = 0
    /\ messages = <<>>
    /\ existing_code = <<>>
    /\ remaining = 0
    /\ tool_results = <<>>
    /\ outcome = NoResult
    /\ stops = <<>>
    /\ events = <<>>
    /\ frames = <<>>

\* No request is being served by another thread.
NoThreads == <<>>

\* No page has been written and create_page has not been called.
NoPages == pages = <<>> /\ page_runs = <<>>

StoreInit ==
    /\ NoPages
    /\ threads = NoThreads
    /\ files = <<>>
    /\ call = NoCall
    /\ result = NoResult
    /\ before = <<>>
    /\ created = {}
    /\ NoRun

Apply(c, r) ==
    /\ call = NoCall
    /\ call' = c
    /\ before' = files
    /\ files' = r.files
    /\ result' = r.result
    /\ created' = IF c.tool = "create_component" /\ r.result.status = "success"
                  THEN created \cup {c.name}
                  ELSE created
    /\ UNCHANGED <<runVars, threads, pageVars>>

CallCreate ==
    \E name \in Names, code \in CallCodes :
        Apply([tool |-> "create_component", name |-> name, code |-> code],
              create_component(files, name, code))

CallUpdate ==
    \E name \in Names, code \in CallCodes :
        Apply([tool |-> "update_component", name |-> name, code |-> code],
              update_component(files, name, code))

CallRead ==
    \E name \in Names :
        Apply([tool |-> "read_component", name |-> name],
              read_component(files, name))

\* The caller takes the result; the store is ready for the next call.
Return ==
    /\ call # NoCall
    /\ call' = NoCall
    /\ result' = NoResult
    /\ before' = <<>>
    /\ UNCHANGED <<files, created, runVars, threads, pageVars>>

StoreNext == CallCreate \/ CallUpdate \/ CallRead \/ Return

SpecStore == StoreInit /\ [][StoreNext]_vars

-----------------------------------------------------------------------------
(* Tool dispatch *)

MaxBlocks == 2

max_iterations == 5

ToolNames ==
    {"create_component", "update_component", "read_component",
     "list_components", "delete_component"}

\* The names and codes the LLM puts into a tool call.
ToolArgNames == {<<"B">>, <<"C">>}

ToolArgCodes ==
    {<<"const", "\r">>, <<"Here is", "const">>, <<"\r">>, <<"\\uD800", "const">>}

\* content_block.input: the schema asks for the keys, the LLM may leave one
\* out, and may name a component in lower case.  list_components and a tool
\* that is not known read no key.
ToolInputs(tool_name) ==
    CASE tool_name = "create_component" ->
           {[name |-> n, code |-> c] : n \in ToolArgNames, c \in ToolArgCodes}
           \cup {[name |-> <<"b">>, code |-> <<"const", "\r">>]}
           \cup {[name |-> <<"B">>], [code |-> <<"const", "\r">>]}
      [] tool_name = "update_component" ->
           {[name |-> n, code |-> c] : n \in ToolArgNames, c \in ToolArgCodes}
           \cup {[name |-> <<"B">>], [code |-> <<"const", "\r">>]}
      [] tool_name = "read_component" ->
           {[name |-> n] : n \in ToolArgNames} \cup {[code |-> <<"const", "\r">>]}
      [] OTHER -> {[name |-> <<"B">>]}

\* tool_input[key] raises KeyError when the key is missing: raised is TRUE
\* and nothing is returned.
process_tool_call(fs, tool_name, tool_input) ==
    LET Has(key) == key \in DOMAIN tool_input
        KeyError == [files |-> fs, raised |-> TRUE, result |-> NoResult]
        Returned(r) == [files |-> r.files, raised |-> FALSE, result |-> r.result]
    IN  CASE tool_name = "create_component" ->
               IF Has("name") /\ Has("code")
               THEN Returned(create_component(fs, tool_input.name, tool_input.code))
               ELSE KeyError
          [] tool_name = "update_component" ->
               IF Has("name") /\ Has("code")
               THEN Returned(update_component(fs, tool_input.name, tool_input.code))
               ELSE KeyError
          [] tool_name = "read_component" ->
               IF Has("name")
               THEN Returned(read_component(fs, tool_input.name))
               ELSE KeyError
          [] tool_name = "list_components" -> Returned(list_components(fs))
          [] OTHER ->
               [files |-> fs, raised |-> FALSE,
                result |-> Error(<<"UnknownTool", tool_name>>)]

-----------------------------------------------------------------------------
(* The agent loops: generate_component, edit_component and                 *)
(* edit_component_streaming.  The three functions are the same loop; where *)
(* they differ the difference is a definition below.  A step runs from one *)
(* call of the LLM or of a tool, or from one yield of the generator, to    *)
(* the next.                                                               *)
(*                                                                         *)
(* A response that stops for tool_use holds 1..MaxBlocks tool_use blocks.  *)
(* The loop skips the blocks of another type, which change nothing.  The   *)
(* tool_use blocks are drawn as the loop reaches them, since nothing reads *)
(* a block before; how many the loop had not reached is drawn when the run *)
(* ends inside the loop.                                                   *)

Kinds == {"generate", "edit", "edit_streaming"}

TargetNames == {<<"B">>}

\* The stores a run can start in.
InitialStores ==
    UNION {[S -> {<<"const">>}] : S \in {{<<"C">>}, {<<"B">>, <<"C">>}}}

IsStream == kind = "edit_streaming"

\* The tool whose success ends the run.
SuccessTool(k) == IF k = "generate" THEN "create_component" ELSE "update_component"

\* What the messages of the function say it does.
Subject(k) == IF k = "generate" THEN "generation" ELSE "edit"

SeedTurn(k, name, code) ==
    [role |-> "user",
     content |-> IF k = "generate" THEN <<"Create", name>> ELSE <<"Please edit", name, code>>]

\* The response appended with the role of the user
AssistantTurn_AsUser(i) == [role |-> "user", content |-> <<"response.content", i>>]

AssistantTurn(i) == [role |-> "assistant", content |-> <<"response.content", i>>]

\* A turn that holds only the result of the last tool call
ToolResultsTurn_LastOnly(results) ==
    [role |-> "user", content |-> <<results[Len(results)]>>]

ToolResultsTurn(results) == [role |-> "user", content |-> results]

CorrectiveTurn(k) == [role |-> "user", content |-> <<"Please use the tool", SuccessTool(k)>>]

Event(type, message) == [type |-> type, message |-> message]

\* f"data: {json.dumps(event)}\n\n"
Frame(event) == <<"data: ", event, "\n\n">>

\* The generator runs when the consumer asks for the next event, which the
\* endpoint does once it has sent the frame of the last one.
Pulled == IsStream => Len(frames) = Len(events)

\* A yield that hands the event over twice
Yield_Twice(event) ==
    events' = IF IsStream THEN Append(Append(events, event), event) ELSE events

\* yield event (the functions that return a dict yield nothing)
Yield(event) == events' = IF IsStream THEN Append(events, event) ELSE events

\* Fail that leaves the outcome unset
Fail_NoOutcome(message) ==
    /\ pc' = "done"
    /\ outcome' = outcome
    /\ Yield(Event("error", message))

\* The run ends with an error: the dict returned, or the error event.
Fail(message) ==
    /\ pc' = "done"
    /\ outcome' = Error(message)
    /\ Yield(Event("error", message))

\* The run ends with success: the dict returned, or the success event.
Succeed(dict) ==
    /\ pc' = "done"
    /\ outcome' = IF IsStream
                  THEN [status |-> "success",
                        message |-> <<"updated successfully", component_name>>]
                  ELSE dict
    /\ Yield(Event("success", <<"updated successfully", component_name>>))

RunInit ==
    /\ NoPages
    /\ threads = NoThreads
    /\ files \in InitialStores
    /\ call = NoCall
    /\ result = NoResult
    /\ before = <<>>
    /\ created = {}
    /\ kind \in Kinds
    /\ component_name \in TargetNames
    /\ pc = "start"
    /\ iteration = 0
    /\ messages = <<>>
    /\ existing_code = <<>>
    /\ remaining = 0
    /\ tool_results = <<>>
    /\ outcome = NoResult
    /\ stops = <<>>
    /\ events = <<>>
    /\ frames = <<>>

\* generate_component up to its loop
BeginGenerate ==
    /\ pc = "start" /\ kind = "generate"
    /\ messages' = <<SeedTurn(kind, component_name, <<>>)>>
    /\ iteration' = 0
    /\ pc' = "loop"
    /\ UNCHANGED <<storeVars, threads, pageVars, kind, component_name, existing_code, remaining,
                   tool_results, outcome, stops, events, frames>>

\* edit_component up to its loop; edit_component_streaming up to its first yield
BeginEdit ==
    /\ pc = "start" /\ kind \in {"edit", "edit_streaming"} /\ Pulled
    /\ LET read_result == read_component(files, component_name).result
       IN  IF read_result.status # "success"
           THEN /\ Fail(<<"not found", component_name>>)
                /\ UNCHANGED <<messages, existing_code, iteration>>
           ELSE /\ existing_code' = read_result.content
                /\ IF IsStream
                   THEN /\ Yield(Event("progress", <<"Reading component", component_name>>))
                        /\ pc' = "reading"
                        /\ UNCHANGED <<messages, iteration>>
                   ELSE /\ messages' = <<SeedTurn(kind, component_name, read_result.content)>>
                        /\ iteration' = 0
                        /\ pc' = "loop"
                        /\ UNCHANGED events
                /\ UNCHANGED outcome
    /\ UNCHANGED <<storeVars, threads, pageVars, kind, component_name, remaining, tool_results,
                   stops, frames>>

\* edit_component_streaming from its first yield to "Starting AI agent..."
StartAgent ==
    /\ pc = "reading" /\ Pulled
    /\ messages' = <<SeedTurn(kind, component_name, existing_code)>>
    /\ iteration' = 0
    /\ Yield(Event("progress", <<"Starting AI agent">>))
    /\ pc' = "loop"
    /\ UNCHANGED <<storeVars, threads, pageVars, kind, component_name, existing_code, remaining,
                   tool_results, outcome, stops, frames>>

LoopContinues_OffByOne(i) == i <= max_iterations

\* while iteration < max_iterations
LoopContinues(i) == i < max_iterations

\* EnterIteration that announces nothing
EnterIteration_NoEvent ==
    /\ pc = "loop" /\ Pulled
    /\ LoopContinues(iteration)
    /\ iteration' = iteration + 1
    /\ pc' = "llm"
    /\ UNCHANGED <<storeVars, threads, pageVars, kind, component_name, messages, existing_code,
                   remaining, tool_results, outcome, stops, events, frames>>

\* iteration += 1, and the "Agent iteration" event
EnterIteration ==
    /\ pc = "loop" /\ Pulled
    /\ LoopContinues(iteration)
    /\ iteration' = iteration + 1
    /\ Yield(Event("progress", <<"Agent iteration", iteration + 1, max_iterations>>))
    /\ pc' = "llm"
    /\ UNCHANGED <<storeVars, threads, pageVars, kind, component_name, messages, existing_code,
                   remaining, tool_results, outcome, stops, frames>>

\* MaxIterationsReached that reports success
MaxIterationsReached_Succeeds ==
    /\ pc = "loop" /\ Pulled
    /\ ~LoopContinues(iteration)
    /\ Succeed([status |-> "success",
                message |-> <<"updated successfully", component_name>>])
    /\ UNCHANGED <<storeVars, threads, pageVars, kind, component_name, iteration, messages,
                   existing_code, remaining, tool_results, stops, frames>>

\* "Max iterations reached"
MaxIterationsReached ==
    /\ pc = "loop" /\ Pulled
    /\ ~LoopContinues(iteration)
    /\ Fail(<<"exceeded maximum iterations", Subject(kind)>>)
    /\ UNCHANGED <<storeVars, threads, pageVars, kind, component_name, iteration, messages,
                   existing_code, remaining, tool_results, stops, frames>>

\* LLMRaises with no except clause: the generator ends with no event
LLMRaises_Uncaught ==
    /\ pc = "llm" /\ Pulled
    /\ stops' = Append(stops, "raised")
    /\ pc' = "done"
    /\ outcome' = Error(<<"Error", Subject(kind), "APIError">>)
    /\ UNCHANGED <<storeVars, threads, pageVars, kind, component_name, iteration, messages,
                   existing_code, remaining, tool_results, events, frames>>

\* client.messages.create raises: the except clause of the function
LLMRaises ==
    /\ pc = "llm" /\ Pulled
    /\ stops' = Append(stops, "raised")
    /\ Fail(<<"Error", Subject(kind), "APIError">>)
    /\ UNCHANGED <<storeVars, threads, pageVars, kind, component_name, iteration, messages,
                   existing_code, remaining, tool_results, frames>>

\* response.stop_reason == "tool_use"
LLMToolUse ==
    /\ pc = "llm" /\ Pulled
    /\ stops' = Append(stops, "tool_use")
    /\ messages' = Append(messages, AssistantTurn(iteration))
    /\ tool_results' = <<>>
    /\ pc' = "tools"
    /\ UNCHANGED <<storeVars, threads, pageVars, kind, component_name, iteration, existing_code,
                   remaining, outcome, events, frames>>

Reprompts_GenerateOnly(k) == k = "generate"

\* The end_turn branch re-prompts: that of generate_component and of
\* edit_component_streaming.  That of edit_component returns an error.
Reprompts(k) == k \in {"generate", "edit_streaming"}

\* A test that no end_turn passes
TargetWritten_Never(k, check_result, baseline) == FALSE

\* The end_turn branch's test that the target was written.
TargetWritten(k, check_result, baseline) ==
    IF k = "generate"
    THEN check_result.status = "success"
    ELSE check_result.status = "success" /\ check_result.content # baseline

\* response.stop_reason == "end_turn"
LLMEndTurn ==
    /\ pc = "llm" /\ Pulled
    /\ stops' = Append(stops, "end_turn")
    /\ IF ~Reprompts(kind)
       THEN /\ Fail(<<"Component edit failed", "text_response">>)
            /\ UNCHANGED messages
       ELSE LET check_result == read_component(files, component_name).result
            IN  IF TargetWritten(kind, check_result, existing_code)
                THEN /\ Succeed(check_result)
                     /\ UNCHANGED messages
                ELSE /\ messages' = messages \o <<AssistantTurn(iteration),
                                                  CorrectiveTurn(kind)>>
                     /\ IF kind = "generate"
                        THEN UNCHANGED events
                        ELSE Yield(Event("progress", <<"Prompting agent to use tool">>))
                     /\ pc' = "loop"
                     /\ UNCHANGED outcome
    /\ UNCHANGED <<storeVars, threads, pageVars, kind, component_name, iteration, existing_code,
                   remaining, tool_results, frames>>

\* LLMOtherStop without its return: the loop goes on after the error
LLMOtherStop_NoReturn ==
    /\ pc = "llm" /\ Pulled
    /\ stops' = Append(stops, "max_tokens")
    /\ Yield(Event("error", <<"stopped unexpectedly", Subject(kind), "max_tokens">>))
    /\ pc' = "loop"
    /\ UNCHANGED <<storeVars, threads, pageVars, kind, component_name, iteration, messages,
                   existing_code, remaining, tool_results, outcome, frames>>

\* LLMOtherStop handled as an end_turn that wrote nothing
LLMOtherStop_Reprompts ==
    /\ pc = "llm" /\ Pulled
    /\ stops' = Append(stops, "max_tokens")
    /\ messages' = messages \o <<AssistantTurn(iteration), CorrectiveTurn(kind)>>
    /\ pc' = "loop"
    /\ UNCHANGED <<storeVars, threads, pageVars, kind, component_name, iteration,
                   existing_code, remaining, tool_results, outcome, events, frames>>

\* any other stop reason
LLMOtherStop ==
    /\ pc = "llm" /\ Pulled
    /\ stops' = Append(stops, "max_tokens")
    /\ Fail(<<"stopped unexpectedly", Subject(kind), "max_tokens">>)
    /\ UNCHANGED <<storeVars, threads, pageVars, kind, component_name, iteration, messages,
                   existing_code, remaining, tool_results, frames>>

\* for content_block in response.content: there is a tool_use block left
MoreBlocks == Len(tool_results) = 0 \/ Len(tool_results) < MaxBlocks

\* edit_component_streaming: the "Calling tool" event of a tool_use block
AnnounceTool ==
    /\ pc = "tools" /\ IsStream /\ Pulled
    /\ MoreBlocks
    /\ Yield(Event("progress", <<"Calling tool">>))
    /\ pc' = "dispatch"
    /\ UNCHANGED <<storeVars, threads, pageVars, kind, component_name, iteration, messages,
                   existing_code, remaining, tool_results, outcome, stops, frames>>

\* No tool result ends the run.
EndsRun_Never(k, tool_name, r) == FALSE

\* The tool result ends the run with success.
EndsRun(k, tool_name, r) == tool_name = SuccessTool(k) /\ r.status = "success"

\* DispatchTool ending the run on a tool result with status error
DispatchTool_StopOnError ==
    /\ Pulled
    /\ \/ pc = "dispatch"
       \/ pc = "tools" /\ ~IsStream /\ MoreBlocks
    /\ \E tool_name \in ToolNames : \E tool_input \in ToolInputs(tool_name) :
         LET p == process_tool_call(files, tool_name, tool_input)
             tool_use_id == <<iteration, Len(tool_results) + 1>>
         IN  IF p.raised
             THEN /\ Fail(<<"Error", Subject(kind), "KeyError">>)
                  /\ remaining' \in 0..(MaxBlocks - Len(tool_results) - 1)
                  /\ UNCHANGED <<files, result, tool_results>>
             ELSE /\ files' = p.files
                  /\ result' = p.result
                  /\ tool_results' =
                       Append(tool_results,
                              [type |-> "tool_result", tool_use_id |-> tool_use_id])
                  /\ IF EndsRun(kind, tool_name, p.result)
                     THEN /\ Succeed(p.result)
                          /\ remaining' \in 0..(MaxBlocks - Len(tool_results) - 1)
                     ELSE IF p.result.status = "error"
                     THEN /\ Fail(p.result.message)
                          /\ remaining' \in 0..(MaxBlocks - Len(tool_results) - 1)
                     ELSE /\ pc' = "tools"
                          /\ UNCHANGED <<remaining, outcome, events>>
    /\ UNCHANGED <<call, before, created, threads, pageVars, kind, component_name, iteration,
                   messages, existing_code, stops, frames>>

\* a tool_use block: the tool is executed and its result kept
DispatchTool ==
    /\ Pulled
    /\ \/ pc = "dispatch"
       \/ pc = "tools" /\ ~IsStream /\ MoreBlocks
    /\ \E tool_name \in ToolNames : \E tool_input \in ToolInputs(tool_name) :
         LET p == process_tool_call(files, tool_name, tool_input)
             tool_use_id == <<iteration, Len(tool_results) + 1>>
         IN  IF p.raised
             THEN /\ Fail(<<"Error", Subject(kind), "KeyError">>)
                  /\ remaining' \in 0..(MaxBlocks - Len(tool_results) - 1)
                  /\ UNCHANGED <<files, result, tool_results>>
             ELSE /\ files' = p.files
                  /\ result' = p.result
                  /\ tool_results' =
                       Append(tool_results,
                              [type |-> "tool_result", tool_use_id |-> tool_use_id])
                  /\ IF EndsRun(kind, tool_name, p.result)
                     THEN /\ Succeed(p.result)
                          /\ remaining' \in 0..(MaxBlocks - Len(tool_results) - 1)
                     ELSE /\ pc' = "tools"
                          /\ UNCHANGED <<remaining, outcome, events>>
    /\ UNCHANGED <<call, before, created, threads, pageVars, kind, component_name, iteration,
                   messages, existing_code, stops, frames>>

\* EndTools that does not add the tool results to the messages
EndTools_DropsResults ==
    /\ pc = "tools" /\ Pulled
    /\ Len(tool_results) > 0
    /\ tool_results' = <<>>
    /\ result' = NoResult
    /\ pc' = "loop"
    /\ UNCHANGED <<files, call, before, created, threads, pageVars, kind, component_name,
                   iteration, messages, existing_code, remaining, outcome,
                   stops, events, frames>>

\* the tool results are added to the messages
EndTools ==
    /\ pc = "tools" /\ Pulled
    /\ Len(tool_results) > 0
    /\ messages' = Append(messages, ToolResultsTurn(tool_results))
    /\ tool_results' = <<>>
    /\ result' = NoResult
    /\ pc' = "loop"
    /\ UNCHANGED <<files, call, before, created, threads, pageVars, kind, component_name,
                   iteration, existing_code, remaining, outcome, stops, events,
                   frames>>

\* api_edit_component_stream.generate: the frame of the event it was given
SendFrame ==
    /\ IsStream
    /\ pc # "closed"
    /\ Len(frames) < Len(events)
    /\ frames' = Append(frames, Frame(events[Len(frames) + 1]))
    /\ UNCHANGED <<storeVars, threads, pageVars, kind, component_name, pc, iteration, messages,
                   existing_code, remaining, tool_results, outcome, stops, events>>

Next ==
    \/ BeginGenerate
    \/ BeginEdit
    \/ StartAgent
    \/ EnterIteration
    \/ MaxIterationsReached
    \/ LLMRaises
    \/ LLMToolUse
    \/ LLMEndTurn
    \/ LLMOtherStop
    \/ AnnounceTool
    \/ DispatchTool
    \/ EndTools
    \/ SendFrame

Spec == RunInit /\ [][Next]_vars

-----------------------------------------------------------------------------
(***************************************************************************)
(* The streaming edit run and its consumer.  edit_component_streaming is a *)
(* generator: it runs from one yield to the next when the endpoint's       *)
(* generator is asked for the next frame, and the server asks when it has  *)
(* sent the last one to the client.  When the client has gone the server   *)
(* closes the generators: the run is left at the yield it stands at.       *)
(* The steps of the run are taken when they can be taken; the consumer is  *)
(* free to take the next frame late, or never.                             *)
(***************************************************************************)

\* The client disconnects: the response iterator is closed.
Disconnect ==
    /\ IsStream
    /\ events # <<>>
    /\ pc \notin {"done", "closed"}
    /\ pc' = "closed"
    /\ UNCHANGED <<storeVars, threads, pageVars, kind, component_name, iteration, messages,
                   existing_code, remaining, tool_results, outcome, stops,
                   events, frames>>

StreamInit == RunInit /\ kind = "edit_streaming"

\* A step of edit_component_streaming.
StreamStep ==
    \/ BeginEdit
    \/ StartAgent
    \/ EnterIteration
    \/ MaxIterationsReached
    \/ LLMRaises
    \/ LLMToolUse
    \/ LLMEndTurn
    \/ LLMOtherStop
    \/ AnnounceTool
    \/ DispatchTool
    \/ EndTools

StreamNext ==
    \/ BeginEdit
    \/ StartAgent
    \/ EnterIteration
    \/ MaxIterationsReached
    \/ LLMRaises
    \/ LLMToolUse
    \/ LLMEndTurn
    \/ LLMOtherStop
    \/ AnnounceTool
    \/ DispatchTool
    \/ EndTools
    \/ SendFrame
    \/ Disconnect

SpecStream == StreamInit /\ [][StreamNext]_vars /\ WF_vars(StreamStep)

-----------------------------------------------------------------------------
(***************************************************************************)
(* Store operations of requests served at the same time.  The server of    *)
(* app.run serves each request in a thread of its own and the store        *)
(* operations take no lock, so the file system calls of two operations     *)
(* interleave.  A step is one file system call: exists(), open() for       *)
(* writing, which truncates the file, the write() that close() flushes,    *)
(* and the open() and read() of a reader, which see the file as it is.     *)
(***************************************************************************)

Threads == {"t1", "t2"}

ThreadNames == {<<"B">>}

\* The names the requests create: names that are not in the store.
ThreadCreateNames == {<<"C">>}

\* The code a request writes.
ThreadCodes == {<<"const">>, <<"const", "\r">>, <<"\r", "const">>}

\* The stores the requests find.
ThreadStores ==
    {[n \in ThreadNames |-> c] : c \in {<<"const">>, <<"const", "const", "const">>}}

IdleThread ==
    [op |-> "none", name |-> <<>>, code |-> <<>>, pc |-> "idle",
     result |-> NoResult, finished |-> 0]

\* How many operations have returned, this one included.
FinishedNow == Cardinality({u \in Threads : threads[u].pc = "done"}) + 1

\* write() at the offset of a file just opened: the bytes replace those at
\* the start of the file and the file keeps what lies beyond them.
WriteAt(content, bytes) ==
    bytes \o SubSeq(content, Len(bytes) + 1, Len(content))

ThreadsInit ==
    /\ NoPages
    /\ files \in ThreadStores
    /\ before = files
    /\ threads = [t \in Threads |-> IdleThread]
    /\ call = NoCall
    /\ result = NoResult
    /\ created = {}
    /\ NoRun

\* update_component up to filepath.exists()
ThreadCallUpdate(t) ==
    /\ threads[t].pc = "idle"
    /\ \E name \in ThreadNames, code \in ThreadCodes :
         IF \/ UpdateLooksLikeProse(code)
            \/ LacksCodePattern(code)
            \/ UpdateTargetMissing(files, name)
         THEN threads' = [threads EXCEPT ![t] =
                  [op |-> "update", name |-> name, code |-> code, pc |-> "done",
                   result |-> update_component(files, name, code).result,
                   finished |-> FinishedNow]]
         ELSE threads' = [threads EXCEPT ![t] =
                  [op |-> "update", name |-> name, code |-> code, pc |-> "open",
                   result |-> NoResult, finished |-> 0]]
    /\ UNCHANGED <<storeVars, runVars, pageVars>>

\* create_component up to filepath.exists()
ThreadCallCreate(t) ==
    /\ threads[t].pc = "idle"
    /\ \E name \in ThreadCreateNames, code \in ThreadCodes :
         IF \/ NameInvalid(name)
            \/ CreateLooksLikeProse(code)
            \/ LacksCodePattern(code)
            \/ CreateTargetTaken(files, name)
         THEN threads' = [threads EXCEPT ![t] =
                  [op |-> "create", name |-> name, code |-> code, pc |-> "done",
                   result |-> create_component(files, name, code).result,
                   finished |-> FinishedNow]]
         ELSE threads' = [threads EXCEPT ![t] =
                  [op |-> "create", name |-> name, code |-> code, pc |-> "open",
                   result |-> NoResult, finished |-> 0]]
    /\ UNCHANGED <<storeVars, runVars, pageVars>>

\* open(filepath, 'w', encoding='utf-8')
ThreadOpen(t) ==
    /\ threads[t].pc = "open"
    /\ files' = Put(files, threads[t].name, <<>>)
    /\ threads' = [threads EXCEPT ![t].pc = "write"]
    /\ UNCHANGED <<call, result, before, created, runVars, pageVars>>

\* f.write(code) and the end of the with block, and the return
ThreadWrite(t) ==
    /\ threads[t].pc = "write"
    /\ LET name == threads[t].name
           code == threads[t].code
       IN  IF Encodable(code)
           THEN /\ files' = Put(files, name, WriteAt(files[name], EncodeText(code)))
                /\ threads' = [threads EXCEPT
                       ![t].pc = "done",
                       ![t].result =
                           Success(<<IF threads[t].op = "create"
                                     THEN "created" ELSE "updated", name>>, name),
                       ![t].finished = FinishedNow]
           ELSE /\ files' = files
                /\ threads' = [threads EXCEPT
                       ![t].pc = "done",
                       ![t].result =
                           Error(<<IF threads[t].op = "create"
                                   THEN "Failed to create component"
                                   ELSE "Failed to update component">>),
                       ![t].finished = FinishedNow]
    /\ UNCHANGED <<call, result, before, created, runVars, pageVars>>

\* read_component
ThreadRead(t) ==
    /\ threads[t].pc = "idle"
    /\ \E name \in ThreadNames :
         threads' = [threads EXCEPT ![t] =
             [op |-> "read", name |-> name, code |-> <<>>, pc |-> "done",
              result |-> read_component(files, name).result,
              finished |-> FinishedNow]]
    /\ UNCHANGED <<storeVars, runVars, pageVars>>

ThreadsNext ==
    \E t \in Threads :
        \/ ThreadCallUpdate(t)
        \/ ThreadCallCreate(t)
        \/ ThreadOpen(t)
        \/ ThreadWrite(t)
        \/ ThreadRead(t)

SpecThreads == ThreadsInit /\ [][ThreadsNext]_vars

-----------------------------------------------------------------------------
(***************************************************************************)
(* A streaming edit run and another run that share the store.  The other   *)
(* run is seen through the one thing it does to the store: an              *)
(* update_component of one of its tool calls, taken here as a whole (its   *)
(* file system calls are those of SpecThreads), at any moment of the       *)
(* streaming run after it has read its baseline.                           *)
(***************************************************************************)

OtherRun == "t1"

\* The code the other run writes.
OtherRunCodes == {<<"const", "\r">>}

SharedInit ==
    /\ NoPages
    /\ threads = [t \in Threads |-> IdleThread]
    /\ files \in InitialStores
    /\ call = NoCall
    /\ result = NoResult
    /\ before = files
    /\ created = {}
    /\ kind = "edit_streaming"
    /\ component_name \in TargetNames
    /\ pc = "start"
    /\ iteration = 0
    /\ messages = <<>>
    /\ existing_code = <<>>
    /\ remaining = 0
    /\ tool_results = <<>>
    /\ outcome = NoResult
    /\ stops = <<>>
    /\ events = <<>>
    /\ frames = <<>>

\* process_tool_call("update_component", ...) of the other run
OtherRunUpdates ==
    /\ threads[OtherRun].pc = "idle"
    /\ pc \notin {"start", "done"}
    /\ \E name \in ThreadNames, code \in OtherRunCodes :
         LET u == update_component(files, name, code)
         IN  /\ files' = u.files
             /\ threads' = [threads EXCEPT ![OtherRun] =
                    [op |-> "update", name |-> name, code |-> code,
                     pc |-> "done", result |-> u.result,
                     finished |-> FinishedNow]]
    /\ UNCHANGED <<call, result, before, created, runVars, pageVars>>

SharedNext ==
    \/ BeginEdit
    \/ StartAgent
    \/ EnterIteration
    \/ MaxIterationsReached
    \/ LLMRaises
    \/ LLMToolUse
    \/ LLMEndTurn
    \/ LLMOtherStop
    \/ AnnounceTool
    \/ DispatchTool
    \/ EndTools
    \/ SendFrame
    \/ OtherRunUpdates

SpecShared == SharedInit /\ [][SharedNext]_vars

-----------------------------------------------------------------------------
(***************************************************************************)
(* create_page: the synthesis of a page from a layout document.  A JSON    *)
(* object is a record whose fields are the keys it holds; a JSON string is *)
(* a sequence of fragments, a component name a sequence of characters; a   *)
(* JSON array is a sequence.  The value of dict.get(key) is <<v>> when the *)
(* key is there and <<>> (None) when it is not.  A line of the page is a   *)
(* sequence of fragments and the page code is the lines joined by "\n".    *)
(***************************************************************************)

\* The layouts hold 0..MaxItems items; the same call is run 1..MaxRuns times.
MaxItems == 2
MaxRuns == 2

\* dict.get(key)
Get(d, key) == IF key \in DOMAIN d THEN <<d[key]>> ELSE <<>>

\* The truth value of a string or None: None and '' are false.
Truthy(o) == o # <<>> /\ o[1] # <<>>

\* A string or None formatted in an f-string.
Format(o) == IF o = <<>> THEN <<"None">> ELSE o[1]

\* An integer formatted in an f-string.
Str(n) ==
    CASE n = 0 -> "0"
      [] n = 10 -> "10"
      [] n = 20 -> "20"
      [] n = 30 -> "30"

\* json.dumps of a state variable's initial value: an integer or None.
json_dumps(o) == IF o = <<>> THEN "null" ELSE Str(o[1])

\* str.upper() of one character
Upper(ch) ==
    CASE ch = "c" -> "C"
      [] ch = "o" -> "O"
      [] OTHER -> ch

\* ord() of one character
Ord(ch) ==
    CASE ch = "B" -> 66
      [] ch = "C" -> 67
      [] ch = "a" -> 97

\* a < b for two strings: Python compares them code point by code point,
\* and a proper prefix is the smaller.
RECURSIVE StrLess(_, _)
StrLess(a, b) ==
    IF b = <<>> THEN FALSE
    ELSE IF a = <<>> THEN TRUE
    ELSE IF Head(a) = Head(b) THEN StrLess(Tail(a), Tail(b))
    ELSE Ord(Head(a)) < Ord(Head(b))

\* sorted(s) for a set of strings
RECURSIVE sorted(_)
sorted(s) ==
    IF s = {} THEN <<>>
    ELSE LET least == CHOOSE a \in s : \A b \in s \ {a} : StrLess(a, b)
         IN  <<least>> \o sorted(s \ {least})

\* The orders in which a set of strings can be iterated: the order of a
\* set depends on the hashes of the strings, which differ from one process
\* to the next.
SetOrders(s) ==
    {order \in [1..Cardinality(s) -> s] : {order[i] : i \in DOMAIN order} = s}

\* "\n".join(lines)
RECURSIVE Join(_)
Join(lines) ==
    IF lines = <<>> THEN <<>>
    ELSE IF Len(lines) = 1 THEN lines[1]
    ELSE lines[1] \o <<"\n">> \o Join(Tail(lines))

\* text.split('\n')
RECURSIVE Split(_)
Split(text) ==
    IF \A i \in DOMAIN text : text[i] # "\n" THEN <<text>>
    ELSE LET at == CHOOSE i \in DOMAIN text :
                       text[i] = "\n" /\ \A j \in 1..(i - 1) : text[j] # "\n"
         IN  <<SubSeq(text, 1, at - 1)>>
                 \o Split(SubSeq(text, at + 1, Len(text)))

\* The concatenation of a sequence of sequences.
RECURSIVE Concat(_)
Concat(seqs) == IF seqs = <<>> THEN <<>> ELSE Head(seqs) \o Concat(Tail(seqs))

\* JSON values that are not objects: an array is [array |-> its elements],
\* a string [string |-> its text].  No object of the model has these keys.
IsObject(value) == "array" \notin DOMAIN value /\ "string" \notin DOMAIN value

\* The text json.dumps gives for a value, and a text that is not JSON.
Json(value) == [json |-> value]
NotJson == [text |-> <<"{">>]

\* json.loads(layout_data)
json_loads(layout_data) ==
    IF "json" \in DOMAIN layout_data
    THEN [raised |-> FALSE, value |-> layout_data.json]
    ELSE [raised |-> TRUE]

\* State variables of the interactions.
CountIsZero == [name |-> <<"c", "ount">>, type |-> <<"number">>, initialValue |-> 0]
CountIsTen == [name |-> <<"c", "ount">>, type |-> <<"number">>, initialValue |-> 10]
OpenUnset == [name |-> <<"o", "pen">>]
Nameless == [initialValue |-> 20]

\* The code of a handler: one definition of handler_name.
HandlerCode(handler_name, body) ==
    <<"const ", handler_name, " = () => {", "\n", body, "\n", "};">>

\* Interactions as generate_interaction makes them (the event under 'type').
Click ==
    [type |-> <<"onClick">>, handlerName |-> <<"handleClick">>,
     code |-> HandlerCode("handleClick", "setCount(count + 1);"),
     state |-> <<CountIsZero>>]
Hover ==
    [type |-> <<"onHover">>, handlerName |-> <<"handleHover">>,
     code |-> HandlerCode("handleHover", "setOpen(true);"),
     state |-> <<CountIsTen, OpenUnset>>]
\* a second handler named handleClick
ClickAgain ==
    [type |-> <<"onClick">>, handlerName |-> <<"handleClick">>,
     code |-> HandlerCode("handleClick", "setOpen(false);"),
     state |-> <<OpenUnset, Nameless>>]
\* the interaction of the end-to-end scenario, with the event under 'type'
\* and with the event under 'eventType'
TypeClick ==
    [type |-> <<"onClick">>, handlerName |-> <<"handleClick">>,
     code |-> <<"const ", "handleClick", " = () => {}">>, state |-> <<>>]
EventTypeClick ==
    [eventType |-> <<"onClick">>, handlerName |-> <<"handleClick">>,
     code |-> <<"const ", "handleClick", " = () => {}">>, state |-> <<>>]
\* an interaction without code, and one whose code holds a lone surrogate
NoCode == [type |-> <<"onClick">>, handlerName |-> <<"handleClick">>]
Surrogate ==
    [type |-> <<"onHover">>, handlerName |-> <<"handleHover">>,
     code |-> HandlerCode("handleHover", "\\uD800")]

At == [x |-> 10, y |-> 20]

Placed(componentName, id, interactions) ==
    [componentName |-> componentName, id |-> id, position |-> At,
     interactions |-> interactions]

Sized(size) ==
    [componentName |-> <<"C">>, id |-> <<"b2">>, position |-> At, size |-> size]

\* The sizes: each dimension left out, 0 or 20.
Sizes ==
    {[width |-> 0], [width |-> 20], [height |-> 0], [height |-> 20],
     [width |-> 0, height |-> 20], [width |-> 20, height |-> 0]}

\* The layout items.
Items ==
    {Placed(<<"B">>, <<"b1">>, <<Click>>),
     Placed(<<"B">>, <<"b1">>, <<Hover>>),
     Placed(<<"B">>, <<"b1">>, <<Click, Hover>>),
     Placed(<<"B">>, <<"b1">>, <<Click, ClickAgain>>),
     Placed(<<"B">>, <<"b1">>, <<TypeClick>>),
     Placed(<<"B">>, <<"b1">>, <<EventTypeClick>>),
     Placed(<<"B">>, <<"b2">>, <<ClickAgain>>),
     Placed(<<"C">>, <<"b2">>, <<Hover>>),
     Placed(<<"C">>, <<"b2">>, <<NoCode>>),
     Placed(<<"C">>, <<"b2">>, <<Surrogate>>),
     Placed(<<"B", "a">>, <<"b1">>, <<>>),
     [componentName |-> <<"B">>, position |-> At, interactions |-> <<Click>>],
     [componentName |-> <<"a">>, id |-> <<"b2">>],
     [id |-> <<"b2">>, position |-> At],
     [string |-> <<"B">>]}
    \cup {Sized(size) : size \in Sizes}

\* The layout documents: objects with and without 'components', an array.
Layouts ==
    {[pageName |-> <<"H">>, components |-> components] :
         components \in UNION {[1..n -> Items] : n \in 0..MaxItems}}
    \cup {[pageName |-> <<"H">>], [array |-> <<>>]}

LayoutTexts == {Json(layout) : layout \in Layouts} \cup {NotJson}

\* layout.get('components', [])
Components(layout) ==
    IF "components" \in DOMAIN layout THEN layout.components ELSE <<>>

\* item.get('interactions', [])
Interactions(item) ==
    IF "interactions" \in DOMAIN item THEN item.interactions ELSE <<>>

\* interaction.get('state', [])
StateVars(interaction) ==
    IF "state" \in DOMAIN interaction THEN interaction.state ELSE <<>>

\* imports: the set of the items' component names that are true.
Imports(layout) ==
    {Get(Components(layout)[i], "componentName")[1] :
         i \in {j \in DOMAIN Components(layout) :
                    Truthy(Get(Components(layout)[j], "componentName"))}}

\* for comp_name in sorted(imports)
ImportOrders_SetOrder(imports) == SetOrders(imports)

ImportOrders(imports) == {sorted(imports)}

\* The state variables of all interactions of all items, in layout order.
DeclaredStateVars(layout) ==
    Concat([i \in DOMAIN Components(layout) |->
        Concat([k \in DOMAIN Interactions(Components(layout)[i]) |->
            StateVars(Interactions(Components(layout)[i])[k])])])

\* all_state_vars: a variable is entered when its name is true and not yet
\* in the dict.  The dict keeps the order of entry.
EntersStateVars_LastWins(declared, i) ==
    /\ Truthy(Get(declared[i], "name"))
    /\ \A j \in (i + 1)..Len(declared) :
           Get(declared[j], "name") # Get(declared[i], "name")

EntersStateVars(declared, i) ==
    /\ Truthy(Get(declared[i], "name"))
    /\ \A j \in 1..(i - 1) : Get(declared[j], "name") # Get(declared[i], "name")

RECURSIVE Select(_, _)
Select(declared, i) ==
    IF i > Len(declared) THEN <<>>
    ELSE (IF EntersStateVars(declared, i)
          THEN <<[name |-> declared[i].name,
                  initialValue |-> Get(declared[i], "initialValue")]>>
          ELSE <<>>) \o Select(declared, i + 1)

all_state_vars(layout) == Select(DeclaredStateVars(layout), 1)

\* all_handlers: component id -> the handlers stored for it.  The dict is
\* a sequence of entries in the order the keys were entered.
HasKey(dict, key) == \E i \in DOMAIN dict : dict[i].key = key

Lookup(dict, key) ==
    dict[CHOOSE i \in DOMAIN dict : dict[i].key = key].value

\* dict[key] = value
SetItem(dict, key, value) ==
    IF HasKey(dict, key)
    THEN [i \in DOMAIN dict |->
             IF dict[i].key = key THEN [key |-> key, value |-> value]
             ELSE dict[i]]
    ELSE Append(dict, [key |-> key, value |-> value])

\* What is stored of an interaction.
StoredHandler_EventType(interaction) ==
    [type |-> Get(interaction, "eventType"),
     handlerName |-> Get(interaction, "handlerName"),
     code |-> Get(interaction, "code")]

StoredHandler(interaction) ==
    [type |-> Get(interaction, "type"),
     handlerName |-> Get(interaction, "handlerName"),
     code |-> Get(interaction, "code")]

\* One round of the loop over the items: an item with interactions sets
\* the entry of its id to [], and its handlers are appended when the id
\* is true.
RECURSIVE CollectHandlers(_, _)
CollectHandlers(items, collected) ==
    IF items = <<>> THEN collected
    ELSE LET interactions == Interactions(Head(items))
             component_id == Get(Head(items), "id")
             handlers ==
                 IF Truthy(component_id)
                 THEN [k \in DOMAIN interactions |->
                          StoredHandler(interactions[k])]
                 ELSE <<>>
         IN  CollectHandlers(Tail(items),
                 IF interactions # <<>>
                 THEN SetItem(collected, component_id, handlers)
                 ELSE collected)

all_handlers(layout) == CollectHandlers(Components(layout), <<>>)

\* The lines of the state declarations.
StateLines(state_vars) ==
    IF state_vars = <<>> THEN <<>>
    ELSE <<<<"  // State management">>>>
         \o [i \in DOMAIN state_vars |->
                <<"  const [">> \o state_vars[i].name
                \o <<", ", "set", Upper(Head(state_vars[i].name))>>
                \o Tail(state_vars[i].name)
                \o <<"] = useState(", json_dumps(state_vars[i].initialValue),
                     ");">>]
         \o <<<<>>>>

\* The lines of one handler: the lines of its code, indented.
HandlerLines(handler) ==
    [k \in DOMAIN Split(handler.code[1]) |->
        <<"  ">> \o Split(handler.code[1])[k]]

\* The lines of the handlers region.
HandlersRegion(handlers_dict) ==
    IF handlers_dict = <<>> THEN <<>>
    ELSE <<<<"  // Event handlers">>>>
         \o Concat([i \in DOMAIN handlers_dict |->
                Concat([k \in DOMAIN handlers_dict[i].value |->
                    HandlerLines(handlers_dict[i].value[k])])])
         \o <<<<>>>>

\* ", ".join(parts) and ' '.join(parts)
RECURSIVE JoinWith(_, _)
JoinWith(parts, separator) ==
    IF parts = <<>> THEN <<>>
    ELSE IF Len(parts) = 1 THEN parts[1]
    ELSE parts[1] \o <<separator>> \o JoinWith(Tail(parts), separator)

\* if width: and if height: a dimension that is None or 0 is false.
Dimension(size, key) == key \in DOMAIN size /\ size[key] # 0

\* position.get('x', 0) and position.get('y', 0) of item.get('position', {})
Coordinate(item, key) ==
    IF "position" \in DOMAIN item /\ key \in DOMAIN item.position
    THEN item.position[key]
    ELSE 0

\* style_parts
StyleParts(item) ==
    <<<<"left: ", Str(Coordinate(item, "x"))>>,
      <<"top: ", Str(Coordinate(item, "y"))>>>>
    \o (IF "size" \in DOMAIN item /\ Dimension(item.size, "width")
        THEN <<<<"width: ", Str(item.size.width)>>>> ELSE <<>>)
    \o (IF "size" \in DOMAIN item /\ Dimension(item.size, "height")
        THEN <<<<"height: ", Str(item.size.height)>>>> ELSE <<>>)

\* props: the handlers stored under the item's id.
Props(item, handlers_dict) ==
    IF HasKey(handlers_dict, Get(item, "id"))
    THEN [k \in DOMAIN Lookup(handlers_dict, Get(item, "id")) |->
             Format(Lookup(handlers_dict, Get(item, "id"))[k].type) \o <<"={">>
             \o Format(Lookup(handlers_dict, Get(item, "id"))[k].handlerName)
             \o <<"}">>]
    ELSE <<>>

\* The three lines of the wrapper of one item.
Wrapper(item, handlers_dict) ==
    <<<<"      <div className=\"absolute\" style={{ ">>
          \o JoinWith(StyleParts(item), ", ") \o <<" }}>">>,
      <<"        <">> \o Format(Get(item, "componentName"))
          \o (IF Props(item, handlers_dict) = <<>> THEN <<>>
              ELSE <<" ">> \o JoinWith(Props(item, handlers_dict), " "))
          \o <<" />">>,
      <<"      </div>">>>>

\* The import lines, for the component names in the order given.
ImportLines_Reversed(order) ==
    [i \in DOMAIN order |->
        <<"import ">> \o order[Len(order) + 1 - i] \o <<" from '../components/">>
        \o order[Len(order) + 1 - i] \o <<"';">>]

ImportLines(order) ==
    [i \in DOMAIN order |->
        <<"import ">> \o order[i] \o <<" from '../components/">>
        \o order[i] \o <<"';">>]

\* code_lines, for the order in which the imports were iterated.
code_lines(page_name, layout, order) ==
    <<<<"import { useState } from 'react';">>,
      <<>>,
      <<"// Component imports - these are generated components from /generated/components/">>,
      <<"// Make sure the component files exist in the ../components/ directory">>>>
    \o ImportLines(order)
    \o <<<<>>, <<"export default function ">> \o page_name \o <<"() {">>>>
    \o StateLines(all_state_vars(layout))
    \o HandlersRegion(all_handlers(layout))
    \o <<<<"  return (">>,
         <<"    <div className=\"relative w-full min-h-screen bg-gray-50\">">>>>
    \o Concat([i \in DOMAIN Components(layout) |->
           Wrapper(Components(layout)[i], all_handlers(layout))])
    \o <<<<"    </div>">>, <<"  );">>, <<"}">>, <<>>>>

\* What create_page raises before it opens the file: the layout or an item
\* is not an object (no .get), or a stored handler has no code (no .split).
NotAnObject(layout) ==
    \/ ~IsObject(layout)
    \/ \E i \in DOMAIN Components(layout) : ~IsObject(Components(layout)[i])

NoCodeToSplit(layout) ==
    \E i \in DOMAIN all_handlers(layout) :
        \E k \in DOMAIN all_handlers(layout)[i].value :
            all_handlers(layout)[i].value[k].code = <<>>

PageCreated(page_name, page_code) ==
    [status |-> "success", page_name |-> page_name, code |-> page_code,
     message |-> <<"Page created", page_name>>]

\* create_page(page_name, layout_data), for the order in which the set of
\* imports is iterated: the pages afterwards and the dict returned.
create_page(ps, page_name, layout_data, order) ==
    IF json_loads(layout_data).raised
    THEN [files |-> ps, result |-> Error(<<"Invalid layout data JSON">>)]
    ELSE IF NotAnObject(json_loads(layout_data).value)
    THEN [files |-> ps, result |-> Error(<<"Failed to create page", "get">>)]
    ELSE IF NoCodeToSplit(json_loads(layout_data).value)
    THEN [files |-> ps, result |-> Error(<<"Failed to create page", "split">>)]
    ELSE LET page_code ==
                 Join(code_lines(page_name, json_loads(layout_data).value, order))
             written == WriteFile(ps, page_name, page_code)
         IN  IF written.raised
             THEN [files |-> written.files,
                   result |-> Error(<<"Failed to create page", "write">>)]
             ELSE [files |-> written.files,
                   result |-> PageCreated(page_name, page_code)]

\* The orders in which a run of create_page can iterate the imports.
RunOrders(layout_data) ==
    IF json_loads(layout_data).raised
           \/ NotAnObject(json_loads(layout_data).value)
    THEN {<<>>}
    ELSE ImportOrders(Imports(json_loads(layout_data).value))

\* The names of the pages, and the pages there are before the call.
PageNames == {<<"H">>, <<"D", "/", "H">>}

InitialPages == {<<>>, [n \in {<<"H">>} |-> <<"old">>]}

PagesInit ==
    /\ pages \in InitialPages
    /\ page_runs = <<>>
    /\ threads = NoThreads
    /\ files = <<>>
    /\ call = NoCall
    /\ result = NoResult
    /\ before = <<>>
    /\ created = {}
    /\ NoRun

\* One run of create_page: what it returned, and the pages before and
\* after it.
RunCreatePage(page_name, layout_data) ==
    \E order \in RunOrders(layout_data) :
        LET r == create_page(pages, page_name, layout_data, order)
        IN  /\ pages' = r.files
            /\ page_runs' = Append(page_runs,
                   [result |-> r.result, before |-> pages, after |-> r.files])

CallCreatePage ==
    /\ call = NoCall
    /\ \E page_name \in PageNames, layout_data \in LayoutTexts :
           /\ call' = [tool |-> "create_page", page_name |-> page_name,
                       layout_data |-> layout_data]
           /\ RunCreatePage(page_name, layout_data)
    /\ UNCHANGED <<files, result, before, created, runVars, threads>>

\* The same call once more.
CallCreatePageAgain ==
    /\ call.tool = "create_page"
    /\ Len(page_runs) < MaxRuns
    /\ RunCreatePage(call.page_name, call.layout_data)
    /\ UNCHANGED <<storeVars, runVars, threads>>

PagesNext == CallCreatePage \/ CallCreatePageAgain

SpecPages == PagesInit /\ [][PagesNext]_vars

-----------------------------------------------------------------------------
(* Claims about the store (checked under SpecStore) *)

\* The content sanity check of create_component / update_component passes.
PassesCreateCheck(code) == ~CreateLooksLikeProse(code) /\ ~LacksCodePattern(code)

PassesUpdateCheck(code) == ~UpdateLooksLikeProse(code) /\ ~LacksCodePattern(code)

SanityKinds == {"LooksLikeProse", "NotRecognizableAsCode"}

ErrorKind(r) == r.message[1]

\* C1: for every name that starts with an uppercase letter and is not in the
\* store, and every code that passes the content sanity check,
\* create_component(name, code) succeeds and read_component(name) then
\* returns status success with content equal to code.
C1_CreateThenReadReturnsCode ==
    ( /\ call.tool = "create_component"
      /\ ~NameInvalid(call.name)
      /\ ~Exists(before, call.name)
      /\ PassesCreateCheck(call.code) )
    => /\ result.status = "success"
       /\ LET r == read_component(files, call.name).result
          IN  r.status = "success" /\ r.content = call.code

\* A create_component call on a name an earlier create_component succeeded for.
SecondCreate ==
    /\ call.tool = "create_component"
    /\ call.name \in created
    /\ Exists(before, call.name)

\* C2 as stated: after a successful create_component(name, c1), a second
\* create_component(name, c2) returns AlreadyExists for every c2, whatever its
\* content, and leaves the stored content equal to c1.
C2_SecondCreateAlwaysAlreadyExists ==
    SecondCreate
    => /\ result.status = "error"
       /\ ErrorKind(result) = "AlreadyExists"
       /\ files = before

\* C2 as amended: the second create_component(name, c2) returns an error for
\* every c2 and leaves the store as it was; the error is AlreadyExists when c2
\* passes the content sanity check, and the sanity check's own error
\* (LooksLikeProse, NotRecognizableAsCode) when it does not.
C2_SecondCreateFails ==
    SecondCreate
    => /\ result.status = "error"
       /\ files = before
       /\ PassesCreateCheck(call.code) => ErrorKind(result) = "AlreadyExists"
       /\ ~PassesCreateCheck(call.code) => ErrorKind(result) \in SanityKinds

C2_Witness ==
    /\ SecondCreate
    /\ result.status = "error"
    /\ ErrorKind(result) = "LooksLikeProse"
    /\ before[call.name] = <<"const">>

\* An update_component call on a name that is not in the store.
UpdateOfMissing ==
    /\ call.tool = "update_component"
    /\ ~Exists(before, call.name)

\* C3 as stated: for every name that is not in the store and every code,
\* update_component(name, code) returns NotFound and the store has no
\* artifact under name afterwards.
C3_UpdateOfMissingAlwaysNotFound ==
    UpdateOfMissing
    => /\ result.status = "error"
       /\ ErrorKind(result) = "NotFound"
       /\ ~Exists(files, call.name)

\* C3 as amended: update_component(name, code) on a name that is not in the
\* store returns an error and never creates the artifact; the error is
\* NotFound when code passes the content sanity check, and the sanity check's
\* own error when it does not.
C3_UpdateOfMissingFails ==
    UpdateOfMissing
    => /\ result.status = "error"
       /\ ~Exists(files, call.name)
       /\ files = before
       /\ PassesUpdateCheck(call.code) => ErrorKind(result) = "NotFound"
       /\ ~PassesUpdateCheck(call.code) => ErrorKind(result) \in SanityKinds

C3_Witness ==
    /\ UpdateOfMissing
    /\ call.name = <<"C">>
    /\ Exists(before, <<"B">>)
    /\ result.status = "error"
    /\ ErrorKind(result) = "NotFound"
    /\ ~Exists(files, call.name)

StoreErrorKinds ==
    {"NameInvalid", "AlreadyExists", "NotFound", "LooksLikeProse",
     "NotRecognizableAsCode"}

\* A create_component or update_component call that returned one of the five
\* store errors.
RejectedWrite ==
    /\ call.tool \in {"create_component", "update_component"}
    /\ result.status = "error"
    /\ ErrorKind(result) \in StoreErrorKinds

\* C4: a create_component or update_component call that returns NameInvalid,
\* AlreadyExists, NotFound, LooksLikeProse or NotRecognizableAsCode leaves the
\* store unchanged: the same names, and the same content under every name.
C4_RejectedWriteLeavesStore ==
    RejectedWrite
    => /\ DOMAIN files = DOMAIN before
       /\ \A name \in DOMAIN files :
            read_component(files, name) = read_component(before, name)

C4_Witness ==
    /\ RejectedWrite
    /\ call.tool = "update_component"
    /\ ErrorKind(result) = "LooksLikeProse"
    /\ Exists(before, call.name)
    /\ read_component(files, call.name).result.content = <<"const">>

\* C22: create_component with a name that is empty or whose first character
\* is not an uppercase letter returns the NameInvalid error, whatever the code
\* and the store, and leaves the store as it was; so, from the empty store,
\* every name of the store starts with an uppercase letter after any
\* sequence of create_component / update_component calls.
C22_NamesStartUppercase ==
    /\ ( /\ call.tool = "create_component"
         /\ (call.name = <<>> \/ ~IsUpper(call.name[1])) )
       => /\ result = Error(<<"NameInvalid">>)
          /\ files = before
    /\ \A name \in DOMAIN files : name # <<>> /\ IsUpper(name[1])

C22_Witness ==
    /\ call.tool = "create_component"
    /\ call.name = <<"b">>
    /\ PassesCreateCheck(call.code)
    /\ result = Error(<<"NameInvalid">>)
    /\ DOMAIN files = {<<"B">>, <<"C">>}

\* The verdict of the content sanity check in the result of a write.
Verdict(r) ==
    IF r.status = "success" THEN "accepted"
    ELSE IF ErrorKind(r) \in SanityKinds THEN ErrorKind(r)
    ELSE "other"

\* The store without the name, and with an artifact of the name.
Without(fs, name) == [n \in DOMAIN fs \ {name} |-> fs[n]]

With(fs, name) == Put(fs, name, <<"const">>)

\* C37: create_component and update_component apply the same content
\* sanity check: for every code, the verdict (accepted, LooksLikeProse,
\* NotRecognizableAsCode) of create on a fresh valid name is the verdict of
\* update on an existing name, so that what one accepts the other accepts.
C37_SameVerdict ==
    /\ ( /\ call.tool = "create_component"
          /\ ~NameInvalid(call.name) /\ ~Exists(before, call.name) )
       => Verdict(result) =
              Verdict(update_component(With(before, call.name),
                                       call.name, call.code).result)
    /\ ( /\ call.tool = "update_component"
          /\ ~NameInvalid(call.name) /\ Exists(before, call.name) )
       => Verdict(result) =
              Verdict(create_component(Without(before, call.name),
                                       call.name, call.code).result)

-----------------------------------------------------------------------------
(* Claims about the agent loops (checked under Spec) *)

Last(seq) == seq[Len(seq)]

\* Every LLM invocation of the run so far answered end_turn.
OnlyEndTurns == \A i \in DOMAIN stops : stops[i] = "end_turn"

\* C5: in a generate_component run whose target does not exist, in which
\* every LLM response is end_turn and the target is never created, the LLM
\* is invoked at most max_iterations times, and the run ends after exactly
\* max_iterations invocations, with the 'exceeded maximum iterations' error.
C5_EndTurnsExhaustIterations ==
    (kind = "generate" /\ OnlyEndTurns /\ ~Exists(files, component_name))
    => /\ Len(stops) <= max_iterations
       /\ pc = "done"
          => /\ Len(stops) = max_iterations
             /\ outcome = Error(<<"exceeded maximum iterations", "generation">>)

C5_Witness ==
    /\ kind = "generate" /\ OnlyEndTurns /\ ~Exists(files, component_name)
    /\ pc = "done"
    /\ Len(stops) = 5

\* C6: a run ends in success on a tool result only when the successful
\* create_component / update_component call was made for the run's target.
C6_SuccessOnlyForTarget ==
    (pc = "done" /\ outcome.status = "success" /\ result.status = "success")
    => result.component_name = component_name

\* The LLM has just answered end_turn, on an iteration before the last, and
\* the target is as it was before the loop (edit) or absent (generate).
EndTurnWithoutWrite ==
    /\ stops # <<>>
    /\ Len(stops) = iteration
    /\ Last(stops) = "end_turn"
    /\ iteration < max_iterations
    /\ LET check_result == read_component(files, component_name).result
       IN  IF kind = "generate"
           THEN check_result.status # "success"
           ELSE check_result.status = "success"
                /\ check_result.content = existing_code

\* The run goes on: the assistant turn and the corrective user turn are the
\* last of the transcript and the loop is about to invoke the LLM again.
Reprompted ==
    /\ pc = "loop"
    /\ iteration < max_iterations
    /\ Len(messages) = 1 + 2 * Len(stops)
    /\ messages[Len(messages) - 1] = AssistantTurn(iteration)
    /\ Last(messages).role = "user"
    /\ Last(messages).content[1] = "Please use the tool"

\* C7 as stated: in every agent-loop variant, an end_turn before the bound
\* that finds the target unchanged does not end the run: the assistant turn
\* and a corrective user turn are appended and the LLM is invoked again.
C7_EveryVariantReprompts == EndTurnWithoutWrite => Reprompted

\* C7 as amended: generate_component and edit_component_streaming re-prompt
\* as stated; edit_component ends the run with the 'Component edit failed'
\* error on its first end_turn.
C7_StreamingAndGenerateReprompt ==
    EndTurnWithoutWrite
    => IF kind \in {"generate", "edit_streaming"}
       THEN Reprompted
       ELSE /\ pc = "done"
            /\ outcome.status = "error"
            /\ outcome.message[1] = "Component edit failed"
            /\ Len(messages) = 1 + 2 * (Len(stops) - 1)

C7_Witness ==
    /\ EndTurnWithoutWrite
    /\ kind = "edit_streaming"
    /\ Reprompted
    /\ iteration = 2
    /\ Last(events).message = <<"Prompting agent to use tool">>

Terminal(event) == event.type \in {"success", "error"}

\* The stream is over: the generator has ended and every event is sent.
StreamCompleted == IsStream /\ pc = "done" /\ Len(frames) = Len(events)

\* C8: the event stream of a streaming edit run holds at most one terminal
\* event (success or error), which is its last event; a completed stream holds
\* exactly one; the frames of the endpoint are the same.
C8_OneTerminalEventLast ==
    IsStream
    => /\ \A i \in DOMAIN events : Terminal(events[i]) => i = Len(events)
       /\ \A i \in DOMAIN frames : Terminal(frames[i][2]) => i = Len(frames)
       /\ \A i \in DOMAIN frames : frames[i] = Frame(events[i])
       /\ Len(frames) <= Len(events)
       /\ pc = "done" <=> (events # <<>> /\ Terminal(Last(events)))
       /\ StreamCompleted => Terminal(Last(frames)[2])

C8_Witness ==
    /\ StreamCompleted
    /\ Len(stops) = 2
    /\ Last(stops) = "raised"
    /\ Last(frames)[2].type = "error"
    /\ Len(frames) > 4

\* C9: a tool failure is a result with status error, never an exception
\* raised to the agent loop: no run ends by a fault of a tool call.
C9_ToolFailureNeverEndsRun ==
    pc = "done" => outcome # Error(<<"Error", Subject(kind), "KeyError">>)

FatalKinds == {"NameInvalid", "AlreadyExists", "NotFound", "UnknownTool"}

\* The last tool call returned an error that is not of the sanity check.
OtherToolError ==
    /\ result.status = "error"
    /\ ErrorKind(result) \in FatalKinds

\* C10 as stated: a tool result whose error kind is NameInvalid,
\* AlreadyExists, NotFound or UnknownTool ends the run, with that error's
\* message as the message of the terminal event or result.
C10_OtherErrorsEndRun ==
    OtherToolError
    => /\ pc = "done"
       /\ outcome.status = "error"
       /\ outcome.message = result.message

\* C10 as amended: such a tool result does not end the run: it is kept as a
\* tool result of the turn and the loop goes on to the next tool call of the
\* response or to the next LLM invocation; the run ends in that turn only
\* if a later tool call of the response raises.
C10_OtherErrorsFedBack ==
    OtherToolError
    => /\ tool_results # <<>>
       /\ Last(tool_results).tool_use_id = <<iteration, Len(tool_results)>>
       /\ \/ pc \in {"tools", "dispatch"}
          \/ /\ pc = "done"
             /\ outcome = Error(<<"Error", Subject(kind), "KeyError">>)

C10_Witness ==
    /\ OtherToolError
    /\ ErrorKind(result) = "AlreadyExists"
    /\ pc = "tools"
    /\ iteration = 2

\* The last tool call was rejected by the content sanity check.
SanityToolError ==
    /\ result.status = "error"
    /\ ErrorKind(result) \in SanityKinds

IterationsExhausted == Error(<<"exceeded maximum iterations", Subject(kind)>>)

ToolFault == Error(<<"Error", Subject(kind), "KeyError">>)

\* C11: a create_component / update_component result rejected by the content
\* sanity check does not end the run: it is kept as a tool result of the
\* turn, the step that leaves the turn appends the tool results to the
\* transcript, and the loop then invokes the LLM again, or, with the iteration
\* bound reached, ends the run with 'exceeded maximum iterations'.  In the
\* turn of the rejected call the run ends only by a later tool call of the
\* same response (its success, or its fault).
C11_SanityErrorFedBack ==
    /\ [](SanityToolError
          => /\ tool_results # <<>>
             /\ Last(tool_results).tool_use_id = <<iteration, Len(tool_results)>>
             /\ \/ pc \in {"tools", "dispatch"}
                \/ pc = "done" /\ outcome = ToolFault)
    /\ [][(SanityToolError /\ pc = "tools" /\ pc' = "loop")
          => /\ messages' = Append(messages, ToolResultsTurn(tool_results))
             /\ outcome' = NoResult]_vars
    /\ [][(SanityToolError /\ pc # "done" /\ pc' = "done")
          => \/ outcome'.status = "success" /\ result'.status = "success"
             \/ outcome' = ToolFault]_vars
    /\ [][(pc = "loop" /\ pc' # "loop")
          => IF iteration < max_iterations
             THEN pc' = "llm" /\ iteration' = iteration + 1 /\ messages' = messages
             ELSE pc' = "done" /\ outcome' = IterationsExhausted]_vars

C11_Witness ==
    /\ SanityToolError
    /\ ErrorKind(result) = "LooksLikeProse"
    /\ kind = "edit_streaming"
    /\ pc = "tools"
    /\ iteration = max_iterations
    /\ Len(messages) = 1 + 2 * (max_iterations - 1) + 1

\* The step reads the target for the baseline of the run.
ReadsTarget == existing_code' # existing_code

\* The step invokes the LLM.
InvokesLLM == Len(stops') > Len(stops)

\* The step dispatches a tool call whose result is kept.
DispatchesTool == Len(tool_results') > Len(tool_results)

\* The event yielded last says that.
Announced(what) == events # <<>> /\ Last(events).type = "progress"
                   /\ Last(events).message[1] = what

\* The i-th LLM invocation comes right after the 'Agent iteration i' event,
\* and a tool is dispatched right after its 'Calling tool' event.
AnnouncedBeforeLoopActions ==
    /\ [][(IsStream /\ InvokesLLM)
          => /\ Announced("Agent iteration")
             /\ Last(events).message[2] = Len(stops) + 1]_vars
    /\ [][(IsStream /\ DispatchesTool) => Announced("Calling tool")]_vars

\* C15 as stated: in a streaming edit run every progress event that announces
\* an action is yielded before the action: 'Reading component' before the
\* read of the target, 'Agent iteration i' before the i-th LLM invocation,
\* 'Calling tool' before the dispatch of the tool call.
C15_AnnouncedBeforeAction ==
    /\ [][(IsStream /\ ReadsTarget) => Announced("Reading component")]_vars
    /\ AnnouncedBeforeLoopActions

\* C15 as amended: 'Agent iteration i' is yielded before the i-th LLM
\* invocation and 'Calling tool' before the dispatch of the tool call;
\* 'Reading component' is yielded after the target has been read, as the
\* first event of the run, and only if the read succeeded.
C15_ReadingAnnouncedAfterRead ==
    /\ [][(IsStream /\ ReadsTarget)
          => /\ events = <<>>
             /\ Len(events') = 1
             /\ events'[1].type = "progress"
             /\ events'[1].message[1] = "Reading component"
             /\ existing_code' = read_component(files, component_name).result.content]_vars
    /\ [](IsStream /\ events # <<>>
          => \/ events[1].message[1] = "Reading component"
             \/ events[1].type = "error" /\ ~Exists(files, component_name))
    /\ AnnouncedBeforeLoopActions

C15_Witness ==
    /\ IsStream
    /\ iteration = 2
    /\ tool_results # <<>>
    /\ Announced("Calling tool")
    /\ events[1].message[1] = "Reading component"
    /\ Len(frames) = Len(events)

\* The run was ended by a fault raised to the loop: by the LLM invocation
\* or by the dispatch of a tool call.
EndedByFault ==
    /\ pc = "done"
    /\ outcome.status = "error"
    /\ outcome.message[1] = "Error"

EventsOfType(type) == {i \in DOMAIN events : events[i].type = type}

C17_TerminalIffOutcomeOrBound ==
    /\ iteration \in 0..max_iterations
    /\ pc = "done" <=> (outcome # NoResult \/ iteration = max_iterations)

\* C17 as amended: 0 <= iteration <= max_iterations in every state, and the
\* run is terminal exactly when an outcome is set.  iteration counts the LLM
\* invocations begun: it is max_iterations during the whole last iteration,
\* while the LLM is to be invoked and its tool calls are to be dispatched;
\* once that iteration is over the loop can only end the run.
C17_IterationBounded ==
    /\ iteration \in 0..max_iterations
    /\ pc = "done" <=> outcome # NoResult
    /\ Len(stops) \in {iteration - 1, iteration}
    /\ pc = "llm" <=> Len(stops) = iteration - 1
    /\ (pc = "loop" /\ iteration = max_iterations)
       => ~ENABLED EnterIteration /\ (Pulled => ENABLED MaxIterationsReached)

C17_Witness ==
    /\ pc = "llm"
    /\ iteration = max_iterations
    /\ outcome = NoResult
    /\ Len(stops) = max_iterations - 1

UnexpectedStop == Error(<<"stopped unexpectedly", Subject(kind), "max_tokens">>)

\* C18: when the LLM answers with a stop reason other than tool_use and
\* end_turn, on any iteration, the step that takes the answer ends the run
\* with the 'stopped unexpectedly' error, dispatches no tool, leaves the
\* store and the transcript as they were, and the LLM is not invoked again.
C18_OtherStopEndsRun ==
    /\ [][(InvokesLLM /\ Last(stops') = "max_tokens")
          => /\ pc' = "done"
             /\ outcome' = UnexpectedStop
             /\ files' = files
             /\ messages' = messages
             /\ tool_results' = tool_results
             /\ result' = result
             /\ iteration' = iteration]_vars
    /\ [](\A i \in DOMAIN stops : stops[i] = "max_tokens" => i = Len(stops))
    /\ []((stops # <<>> /\ Last(stops) = "max_tokens")
          => pc = "done" /\ outcome = UnexpectedStop)
    /\ [][pc = "done"
          => /\ pc' = "done"
             /\ <<files, messages, stops, outcome, events>>'
                  = <<files, messages, stops, outcome, events>>]_vars

C18_Witness ==
    /\ Len(stops) = 3
    /\ stops = <<"end_turn", "tool_use", "max_tokens">>
    /\ kind = "generate"
    /\ pc = "done"
    /\ outcome = UnexpectedStop

\* The dict is the success of the write that defines the run: of
\* create_component in a generate run, of update_component in an edit run.
DefiningSuccess(r) ==
    /\ r.status = "success"
    /\ "message" \in DOMAIN r
    /\ r.message[1] = IF kind = "generate" THEN "created" ELSE "updated"

\* C19: in a tool_use turn, the step in which the defining write succeeds
\* ends the run with success; the tool calls placed before it in the
\* response have been dispatched, in response order, and those placed after
\* it are never dispatched: the store stays as that write left it.
C19_DefiningWriteEndsRunAtOnce ==
    /\ [][(DispatchesTool /\ DefiningSuccess(result'))
          => /\ pc' = "done"
             /\ outcome'.status = "success"
             /\ DOMAIN files \subseteq DOMAIN files'
             /\ \A n \in DOMAIN files' \ {result'.component_name} :
                    n \in DOMAIN files /\ files'[n] = files[n]
             /\ remaining' \in 0..(MaxBlocks - Len(tool_results'))]_vars
    /\ [](\A j \in DOMAIN tool_results :
             tool_results[j].tool_use_id = <<iteration, j>>)
    /\ [][pc = "done"
          => <<files, result, tool_results, remaining>>'
               = <<files, result, tool_results, remaining>>]_vars

C19_Witness ==
    /\ pc = "done"
    /\ outcome.status = "success"
    /\ DefiningSuccess(result)
    /\ tool_results # <<>>
    /\ remaining = 1

\* C20: a generate run reports success only if a create_component call of
\* the run succeeded for the run's target, whatever the store the run
\* started with: the dict it returns is then that call's result.
C20_SuccessOnlyAfterCreate ==
    (kind = "generate" /\ pc = "done" /\ outcome.status = "success")
    => /\ "message" \in DOMAIN outcome
       /\ outcome.message[1] = "created"
       /\ outcome.component_name = component_name

-----------------------------------------------------------------------------
(* Claims about requests served at the same time (checked under SpecThreads) *)

\* C12: a read_component(name) that runs while another request runs
\* update_component(name, new) on an existing artifact returns the whole
\* previous content or the whole new content.
C12_ReadSeesWholeContent ==
    \A r, w \in Threads :
        ( /\ r # w
          /\ threads[r].op = "read" /\ threads[r].pc = "done"
          /\ threads[w].op = "update"
          /\ threads[w].name = threads[r].name )
        => /\ threads[r].result.status = "success"
           /\ threads[r].result.content
                \in {DecodeText(before[threads[r].name]),
                     DecodeText(EncodeText(threads[w].code))}

\* C13: when two requests update the same artifact at the same time and
\* both have returned success, the stored content is the whole code of the
\* one that returned last.
C13_LastWriterWins ==
    \A a, b \in Threads :
        ( /\ a # b
          /\ threads[a].op = "update" /\ threads[b].op = "update"
          /\ threads[a].name = threads[b].name
          /\ threads[a].pc = "done" /\ threads[b].pc = "done"
          /\ threads[a].result.status = "success"
          /\ threads[b].result.status = "success"
          /\ threads[a].finished < threads[b].finished )
        => files[threads[b].name] = EncodeText(threads[b].code)

\* C35: names are unique when requests run at the same time: of two
\* create_component calls for the same name that is not in the store, at
\* most one returns success and the other returns AlreadyExists, so that
\* no successful create writes over what another successful create wrote.
C35_OneCreateSucceeds ==
    \A a, b \in Threads :
        ( /\ a # b
          /\ threads[a].op = "create" /\ threads[b].op = "create"
          /\ threads[a].name = threads[b].name
          /\ threads[a].name \notin DOMAIN before
          /\ threads[a].pc = "done" /\ threads[b].pc = "done"
          /\ threads[a].result.status = "success" )
        => /\ threads[b].result.status = "error"
           /\ ErrorKind(threads[b].result) = "AlreadyExists"

-----------------------------------------------------------------------------
(* Claims about the streaming run and its consumer (checked under SpecStream) *)

\* C14: a streaming edit run that has started reaches its terminal state
\* (success or error) whatever the consumer does: whether it takes the
\* events late, stops taking them, or disconnects.
C14_StartedRunEnds == (IsStream /\ events # <<>>) ~> (pc = "done")

-----------------------------------------------------------------------------
(* Claims about runs that share the store (checked under SpecShared) *)

\* C21: the end_turn check of a streaming edit run is the content diff alone,
\* whoever wrote the target: the step that takes an end_turn answer ends the
\* run with a success event exactly when the target can be read and its
\* content differs from the baseline read before the loop.  (The witness is
\* the execution of the claim: no write of the run succeeded, the other run
\* updated the target after the baseline was read, and the run ended with a
\* success event.)
C21_EndTurnCheckIsContentDiff ==
    [][(IsStream /\ InvokesLLM /\ Last(stops') = "end_turn")
       => LET check_result == read_component(files, component_name).result
          IN  /\ files' = files
              /\ (pc' = "done" /\ outcome'.status = "success"
                  /\ Last(events').type = "success")
                 <=> (check_result.status = "success"
                      /\ check_result.content # existing_code)
              /\ pc' # "done" => pc' = "loop" /\ outcome' = NoResult]_vars

C21_Witness ==
    /\ IsStream
    /\ pc = "done"
    /\ outcome.status = "success"
    /\ Last(events).type = "success"
    /\ stops = <<"tool_use", "end_turn">>
    /\ threads[OtherRun].op = "update"
    /\ threads[OtherRun].result.status = "success"
    /\ threads[OtherRun].name = component_name
    /\ existing_code = DecodeText(before[component_name])
    /\ files = [before EXCEPT ![component_name] = EncodeText(threads[OtherRun].code)]
    /\ DecodeText(files[component_name]) # existing_code

-----------------------------------------------------------------------------
(* Claims about create_page (checked under SpecPages) *)

\* The layout document of the call, when the text of the call is JSON.
CalledWithJson == call.tool = "create_page" /\ "json" \in DOMAIN call.layout_data

CalledLayout == call.layout_data.json

\* Run i of the call returned the page code.
Synthesized(i) == i \in DOMAIN page_runs /\ page_runs[i].result.status = "success"

\* The lines of the page code run i returned.
PageLines(i) == Split(page_runs[i].result.code)

\* C23: layout synthesis is deterministic: whenever a run of
\* create_page(p, L) returns page code, every other run of the same call,
\* whatever the pages were before it, returns the same page code and leaves
\* the same page stored.
C23_SynthesisIsDeterministic ==
    \A i \in DOMAIN page_runs : \A j \in DOMAIN page_runs :
        Synthesized(i) =>
            /\ Synthesized(j)
            /\ page_runs[j].result.code = page_runs[i].result.code
            /\ page_runs[j].after = page_runs[i].after
            /\ page_runs[i].after[call.page_name] = page_runs[i].result.code

\* The same call ran twice on a layout that imports several components,
\* the first run over an older page of that name.
C23_Witness ==
    /\ Len(page_runs) = MaxRuns
    /\ Synthesized(1) /\ Synthesized(MaxRuns)
    /\ Cardinality(Imports(CalledLayout)) >= 2
    /\ call.page_name \in DOMAIN page_runs[1].before
    /\ page_runs[1].before # page_runs[1].after

\* The lines of run i that declare a state variable.
DeclarationLines(i) ==
    SelectSeq(PageLines(i), LAMBDA line : line # <<>> /\ line[1] = "  const [")

\* The places of the layout, in layout order, where a state variable with a
\* name is declared for the first time.
FirstDeclarations(declared) ==
    {d \in DOMAIN declared :
        /\ Truthy(Get(declared[d], "name"))
        /\ \A e \in 1..(d - 1) :
               Get(declared[e], "name") # Get(declared[d], "name")}

\* The declaration of a variable: its name, the setter 'set' + the name
\* with its first letter in upper case, and the initial value.
DeclarationOf(state_var) ==
    <<"  const [">> \o state_var.name
    \o <<", ", "set", Upper(Head(state_var.name))>> \o Tail(state_var.name)
    \o <<"] = useState(", json_dumps(Get(state_var, "initialValue")), ");">>

\* C24: the state variables are merged first occurrence wins: the page
\* holds exactly one declaration for each name declared in the layout,
\* with the setter 'set' + capitalized name and the initial value of the
\* first declaration of that name in layout order, and the declarations
\* stand in the order of the first occurrences.
C24_FirstOccurrenceWins ==
    \A i \in DOMAIN page_runs :
        Synthesized(i) =>
            LET declared == DeclaredStateVars(CalledLayout)
                firsts == FirstDeclarations(declared)
            IN  /\ Len(DeclarationLines(i)) = Cardinality(firsts)
                /\ \A d \in firsts :
                       DeclarationLines(i)[Cardinality({e \in firsts : e <= d})]
                           = DeclarationOf(declared[d])

\* Two items declare count, the first with 0 and the second with 10, and
\* the page declares count with 0.
C24_Witness ==
    /\ Synthesized(1)
    /\ Len(Components(CalledLayout)) = 2
    /\ Interactions(Components(CalledLayout)[1]) = <<Click>>
    /\ Interactions(Components(CalledLayout)[2]) = <<Hover>>
    /\ DeclarationLines(1)[1] = DeclarationOf(CountIsZero)
    /\ Len(DeclarationLines(1)) = 2

\* The lines of run i between '  // Event handlers' and '  return (': the
\* handlers region.
HandlersRegionOf(i) ==
    LET lines == PageLines(i)
        from == CHOOSE k \in DOMAIN lines : lines[k] = <<"  // Event handlers">>
        to == CHOOSE k \in DOMAIN lines : lines[k] = <<"  return (">>
    IN  IF \E k \in DOMAIN lines : lines[k] = <<"  // Event handlers">>
        THEN SubSeq(lines, from + 1, to - 1)
        ELSE <<>>

\* The lines of a region that define the handler of the name.
DefinitionsOf(region, handler_name) ==
    {k \in DOMAIN region :
        /\ Len(region[k]) >= 3
        /\ region[k][2] = "const "
        /\ region[k][3] = handler_name}

\* C25: the handlers region of the page never holds two definitions of the
\* same handler name, also when two interactions of one item or of two
\* items use the same handler name.
C25_NoHandlerDefinedTwice ==
    \A i \in DOMAIN page_runs :
        Synthesized(i) =>
            \A handler_name \in {"handleClick", "handleHover"} :
                Cardinality(DefinitionsOf(HandlersRegionOf(i), handler_name)) <= 1

\* The line of run i that instantiates the component of item n: the second
\* of the three lines of the n-th wrapper.
WrapperLines(i) ==
    SelectSeq(PageLines(i),
              LAMBDA line : line # <<>> /\ line[1] \in
                  {"      <div className=\"absolute\" style={{ ",
                   "        <", "      </div>"})

Instantiation(i, n) == WrapperLines(i)[3 * n - 1]

\* The line carries the prop event={handler_name}.
CarriesProp(line, event, handler_name) ==
    \E k \in 1..(Len(line) - 3) :
        /\ line[k] = event
        /\ line[k + 1] = "={"
        /\ line[k + 2] = handler_name
        /\ line[k + 3] = "}"

\* The layout of the end-to-end scenario: one Button b1 at 10/20 whose
\* interaction holds the keys of the given interaction.
ScenarioLayout(interaction) ==
    [pageName |-> <<"H">>,
     components |-> <<Placed(<<"B">>, <<"b1">>, <<interaction>>)>>]

\* The page of the scenario: it imports the component, declares no state
\* and renders one wrapper at left: 10, top: 20 with onClick={handleClick}.
ScenarioPage(i) ==
    /\ \E k \in DOMAIN PageLines(i) :
           PageLines(i)[k] = <<"import ", "B", " from '../components/", "B", "';">>
    /\ DeclarationLines(i) = <<>>
    /\ WrapperLines(i) =
           <<<<"      <div className=\"absolute\" style={{ ",
               "left: ", "10", ", ", "top: ", "20", " }}>">>,
             <<"        <", "B", " ", "onClick", "={", "handleClick", "}", " />">>,
             <<"      </div>">>>>

\* C26 as stated: an interaction that carries its event in the field
\* eventType (value E) and its handler in handlerName (value H) gives the
\* component of its item the prop E={H}, and the scenario's layout gives
\* the scenario's page.
C26_EventTypeBecomesProp ==
    \A i \in DOMAIN page_runs :
        Synthesized(i) /\ CalledLayout = ScenarioLayout(EventTypeClick) =>
            /\ CarriesProp(Instantiation(i, 1), "onClick", "handleClick")
            /\ ScenarioPage(i)

\* The item n of the layout has an id, and no other item has the same.
HasOwnId(layout, n) ==
    /\ Truthy(Get(Components(layout)[n], "id"))
    /\ \A o \in DOMAIN Components(layout) \ {n} :
           Get(Components(layout)[o], "id") # Get(Components(layout)[n], "id")

\* C26 amended: the event is read from the field type.  An interaction
\* that carries its event in the field type (value E) and its handler in
\* handlerName (value H) gives the component of its item, when the item
\* has an id of its own, the prop E={H}; an event under eventType is not
\* read, and the prop is None={H}.  The scenario's layout with the event
\* under type gives the scenario's page.
C26_TypeBecomesProp ==
    \A i \in DOMAIN page_runs :
        Synthesized(i) =>
            /\ \A n \in DOMAIN Components(CalledLayout) :
                   HasOwnId(CalledLayout, n) =>
                       \A k \in DOMAIN Interactions(Components(CalledLayout)[n]) :
                           LET interaction ==
                                   Interactions(Components(CalledLayout)[n])[k]
                           IN  /\ CarriesProp(Instantiation(i, n),
                                      Format(Get(interaction, "type"))[1],
                                      Format(Get(interaction, "handlerName"))[1])
                               /\ "type" \notin DOMAIN interaction =>
                                      ~CarriesProp(Instantiation(i, n),
                                           "onClick", "handleClick")
            /\ CalledLayout = ScenarioLayout(TypeClick) => ScenarioPage(i)

\* The scenario's layout with the event under type was synthesized.
C26_Witness ==
    /\ Synthesized(1)
    /\ CalledLayout = ScenarioLayout(TypeClick)
    /\ CarriesProp(Instantiation(1, 1), "onClick", "handleClick")

\* The props of an instantiation line: what stands between the component
\* name and the closing ' />', without the separating blanks.
PropsOf(line) == SelectSeq(SubSeq(line, 3, Len(line) - 1), LAMBDA f : f # " ")

\* The props that bind the events of the interactions to their handler
\* names, one for each interaction, in order.
BoundProps(interactions) ==
    Concat([k \in DOMAIN interactions |->
        Format(Get(interactions[k], "type")) \o <<"={">>
        \o Format(Get(interactions[k], "handlerName")) \o <<"}">>])

\* C27: the page holds exactly one positioned wrapper for each layout
\* item, in layout order, and the component in the wrapper of item n
\* carries exactly one prop for each interaction of item n, in order,
\* binding the interaction's event to the interaction's handler name, also
\* when two items share an id or an item has no id.
C27_OnePropPerInteraction ==
    \A i \in DOMAIN page_runs :
        Synthesized(i) =>
            /\ Len(WrapperLines(i)) = 3 * Len(Components(CalledLayout))
            /\ \A n \in DOMAIN Components(CalledLayout) :
                   /\ Instantiation(i, n)[2] =
                          Format(Get(Components(CalledLayout)[n], "componentName"))[1]
                   /\ PropsOf(Instantiation(i, n)) =
                          BoundProps(Interactions(Components(CalledLayout)[n]))

\* The first line of the wrapper of item n of run i: the one with the style.
StyleLine(i, n) == WrapperLines(i)[3 * n - 2]

\* The style holds an entry of the dimension.
HasEntry(line, dimension) == \E k \in DOMAIN line : line[k] = dimension

\* item.get('size') specifies the dimension.
Specifies(item, key) == "size" \in DOMAIN item /\ key \in DOMAIN item.size

\* C28: the style of the wrapper of an item holds a width entry exactly
\* when the size of the item specifies a width, and a height entry exactly
\* when it specifies a height, for every specified value, 0 included; a
\* dimension that is left out adds no entry.
C28_DimensionIffSpecified ==
    \A i \in DOMAIN page_runs :
        Synthesized(i) =>
            \A n \in DOMAIN Components(CalledLayout) :
                /\ HasEntry(StyleLine(i, n), "width: ")
                       <=> Specifies(Components(CalledLayout)[n], "width")
                /\ HasEntry(StyleLine(i, n), "height: ")
                       <=> Specifies(Components(CalledLayout)[n], "height")

\* The component import lines of run i: the import lines but the first
\* line of the page, which imports useState.
ComponentImportLines(i) ==
    SelectSeq(PageLines(i), LAMBDA line : line # <<>> /\ line[1] = "import ")

\* The component an import line imports.
Imported(line) == SubSeq(line, 2, (Len(line) - 1) \div 2)

\* The component names of the layout items.
ComponentNames(layout) ==
    {Components(layout)[n].componentName :
        n \in {o \in DOMAIN Components(layout) :
                   /\ "componentName" \in DOMAIN Components(layout)[o]
                   /\ Components(layout)[o].componentName # <<>>}}

\* C29: the component import lines of the page are the distinct component
\* names of the layout items, one line each, in ascending lexicographic
\* order, whatever the order and the multiplicity of the items; a layout
\* without components gives no component import line and no wrapper.
C29_ImportsDistinctAndSorted ==
    \A i \in DOMAIN page_runs :
        Synthesized(i) =>
            LET lines == ComponentImportLines(i)
            IN  /\ {Imported(lines[k]) : k \in DOMAIN lines}
                       = ComponentNames(CalledLayout)
                /\ \A k \in DOMAIN lines :
                       lines[k] = <<"import ">> \o Imported(lines[k])
                                  \o <<" from '../components/">>
                                  \o Imported(lines[k]) \o <<"';">>
                /\ \A k \in DOMAIN lines : \A l \in DOMAIN lines :
                       k < l => StrLess(Imported(lines[k]), Imported(lines[l]))
                /\ Components(CalledLayout) = <<>> =>
                       lines = <<>> /\ WrapperLines(i) = <<>>

\* A layout whose items name C before Ba was synthesized, with the import
\* of Ba first.
C29_Witness ==
    /\ Synthesized(1)
    /\ Len(Components(CalledLayout)) = 2
    /\ Get(Components(CalledLayout)[1], "componentName") = <<<<"C">>>>
    /\ Get(Components(CalledLayout)[2], "componentName") = <<<<"B", "a">>>>
    /\ Len(ComponentImportLines(1)) = 2
    /\ Imported(ComponentImportLines(1)[1]) = <<"B", "a">>

\* C30: whenever create_page returns status error, the pages are as they
\* were before the call: no page file is created and a page of that name
\* keeps its content.
C30_ErrorLeavesPages ==
    \A i \in DOMAIN page_runs :
        page_runs[i].result.status = "error" =>
            page_runs[i].after = page_runs[i].before

-----------------------------------------------------------------------------
(* Claims about the bound, the tool calls and the transcript of the agent  *)
(* loops (checked under Spec)                                              *)

\* The run has used all its iterations: the last one is over and the run
\* has not ended.
IterationsUsed == pc = "loop" /\ iteration = max_iterations

\* C31: whatever the LLM answers (tool_use, end_turn, another stop reason,
\* a fault) and whatever the tools return, each variant invokes the LLM
\* at most max_iterations (5) times; a run that has used all its
\* iterations without success invokes nothing more, and its next step ends
\* it with the 'exceeded maximum iterations' error, never with success.
C31_AtMostMaxIterationsInvocations ==
    /\ [](Len(stops) <= iteration /\ iteration <= max_iterations)
    /\ [](max_iterations = 5)
    /\ [](IterationsUsed => Len(stops) = max_iterations /\ outcome = NoResult)
    /\ [][(IterationsUsed /\ pc' # pc)
          => /\ pc' = "done"
             /\ outcome' = IterationsExhausted
             /\ stops' = stops
             /\ files' = files]_vars

\* A run of five invocations that answered tool_use and end_turn and ended
\* with the error of the bound.
C31_Witness ==
    /\ pc = "done"
    /\ Len(stops) = 5
    /\ outcome = IterationsExhausted
    /\ \E i \in DOMAIN stops : stops[i] = "tool_use"
    /\ \E i \in DOMAIN stops : stops[i] = "end_turn"

\* The ids of the tool calls of the response of iteration i that the loop
\* has reached, in response order: call k of the response has id <<i, k>>.
CallIds(i, reached) == [k \in 1..reached |-> <<i, k>>]

\* The call ids the results answer, in the order of the results.
AnsweredIds(results) == [k \in DOMAIN results |-> results[k].tool_use_id]

\* C32: each tool call of an assistant response is dispatched at most once
\* and in response order: the results kept answer the calls reached so
\* far, one each and in their order, and a dispatch adds the result of the
\* next call.  Whenever the run continues after a tool_use turn, the user
\* turn appended holds exactly one tool result for each tool call of the
\* response, in the same order, each with the id of the call it answers,
\* right after the assistant turn of the response.
C32_OneResultPerCallInOrder ==
    /\ [](AnsweredIds(tool_results) = CallIds(iteration, Len(tool_results)))
    /\ [](Len(tool_results) <= MaxBlocks)
    /\ [][DispatchesTool
          => /\ Len(tool_results') = Len(tool_results) + 1
             /\ SubSeq(tool_results', 1, Len(tool_results)) = tool_results
             /\ Last(tool_results').tool_use_id = <<iteration, Len(tool_results')>>
             /\ Last(tool_results').type = "tool_result"]_vars
    /\ [][(pc = "tools" /\ pc' = "loop")
          => /\ Len(messages') = Len(messages) + 1
             /\ SubSeq(messages', 1, Len(messages)) = messages
             /\ Last(messages) = AssistantTurn(iteration)
             /\ Last(messages').role = "user"
             /\ AnsweredIds(Last(messages').content)
                    = CallIds(iteration, Len(tool_results))
             /\ Last(messages').content = tool_results
             /\ tool_results # <<>>]_vars

\* The run went on after a turn of two tool calls: the last turn of the
\* transcript holds the results of both.
C32_Witness ==
    /\ pc = "loop"
    /\ stops # <<>> /\ Last(stops) = "tool_use"
    /\ iteration = 2
    /\ Last(messages).role = "user"
    /\ Len(Last(messages).content) = 2
    /\ AnsweredIds(Last(messages).content) = <<<<2, 1>>, <<2, 2>>>>

\* The transcript as the LLM may be given it: the seeding user turn first,
\* then assistant and user turns in alternation, a user turn last.
WellFormed(transcript) ==
    /\ transcript # <<>>
    /\ transcript[1] = SeedTurn(kind, component_name, existing_code)
    /\ \A i \in DOMAIN transcript :
           transcript[i].role = IF i % 2 = 1 THEN "user" ELSE "assistant"
    /\ Len(transcript) % 2 = 1

\* C36: the transcript of a run is append-only, and it is well-formed at
\* every LLM invocation: it starts with the one seeding user turn, the
\* roles alternate user/assistant, its last turn is a user turn; every
\* turn in it stays, unchanged and in its place, for the rest of the run.
C36_TranscriptAppendOnly ==
    /\ [](pc = "llm" => WellFormed(messages))
    /\ [](pc = "llm" => Len(messages) = 2 * Len(stops) + 1)
    /\ [][/\ Len(messages') >= Len(messages)
          /\ SubSeq(messages', 1, Len(messages)) = messages]_vars

\* The third invocation of a run, after a turn of tool results and a
\* corrective turn.
C36_Witness ==
    /\ pc = "llm"
    /\ iteration = 3
    /\ stops = <<"tool_use", "end_turn">>
    /\ Len(messages) = 5
    /\ messages[2] = AssistantTurn(1)
    /\ messages[5].content[1] = "Please use the tool"

\* An edit run whose target is not in the store.
EditOfMissing ==
    /\ kind \in {"edit", "edit_streaming"}
    /\ ~Exists(files, component_name)

NotFound == Error(<<"not found", component_name>>)

\* C38: an edit run (edit_component, edit_component_streaming) whose
\* target does not exist fails before any LLM invocation and any tool
\* dispatch: its first step ends it with the 'not found' error, the store
\* is unchanged, and the streaming variant yields exactly one event, the
\* error event, with no progress event before it.
C38_EditOfMissingFailsAtOnce ==
    /\ []((EditOfMissing /\ pc # "start")
          => /\ pc = "done"
             /\ outcome = NotFound
             /\ stops = <<>> /\ iteration = 0
             /\ tool_results = <<>> /\ result = NoResult
             /\ messages = <<>>
             /\ events = IF IsStream
                         THEN <<Event("error", <<"not found", component_name>>)>>
                         ELSE <<>>
             /\ Len(frames) <= 1
             /\ files \in InitialStores)
    /\ [][EditOfMissing => files' = files]_vars

\* The stream of an edit of a missing target, sent to its end.
C38_Witness ==
    /\ EditOfMissing
    /\ IsStream
    /\ pc = "done"
    /\ Len(events) = 1
    /\ frames = <<Frame(Event("error", <<"not found", component_name>>))>>

-----------------------------------------------------------------------------
(* Claims about the frames of the streaming endpoint (checked under        *)
(* SpecStream)                                                             *)

\* The places of the 'Agent iteration' events among the events.
IterationEvents ==
    {i \in DOMAIN events :
        events[i].type = "progress" /\ events[i].message[1] = "Agent iteration"}

\* C33: the frames of the streaming endpoint are the events of the run,
\* one frame for each event and in the order of the events: no event is
\* dropped, sent twice or out of order.  The progress events of a run are
\* 'Reading component', 'Starting AI agent', and then for each iteration
\* 'Agent iteration i/5' with i = 1, 2, ... increasing by one.
C33_FramesAreEventsInOrder ==
    /\ [](IsStream
          => /\ Len(frames) <= Len(events) /\ Len(events) <= Len(frames) + 1
             /\ \A i \in DOMAIN frames :
                    /\ frames[i][1] = "data: "
                    /\ frames[i][2] = events[i]
                    /\ frames[i][3] = "\n\n"
             /\ (pc = "done" /\ ~ENABLED SendFrame) => Len(frames) = Len(events))
    /\ [][/\ Len(events') >= Len(events)
          /\ SubSeq(events', 1, Len(events)) = events
          /\ Len(frames') >= Len(frames)
          /\ SubSeq(frames', 1, Len(frames)) = frames]_vars
    /\ []((IsStream /\ events # <<>> /\ events[1].type = "progress")
          => /\ events[1].message[1] = "Reading component"
             /\ Len(events) >= 2 => events[2].message = <<"Starting AI agent">>
             /\ Len(events) >= 3 => events[3].message = <<"Agent iteration", 1, 5>>
             /\ \A i \in IterationEvents :
                    /\ events[i].message[2] =
                           Cardinality({j \in IterationEvents : j <= i})
                    /\ events[i].message[3] = max_iterations)

\* A stream that was sent to its end, with the events of three iterations.
C33_Witness ==
    /\ IsStream /\ pc = "done"
    /\ Len(frames) = Len(events)
    /\ Cardinality(IterationEvents) = 3
    /\ Last(frames)[2].type = "success"

-----------------------------------------------------------------------------
(* Further claims about create_page (checked under SpecPages) *)

\* The lines of handler code in the handlers region of run i.
RegionCode(i) == SelectSeq(HandlersRegionOf(i), LAMBDA line : line # <<>>)

\* The code of an interaction, re-indented line by line.
Indented(interaction) ==
    IF "code" \in DOMAIN interaction
    THEN [k \in DOMAIN Split(interaction.code) |->
             <<"  ">> \o Split(interaction.code)[k]]
    ELSE <<>>

\* The handler code of every interaction of every item, item by item in
\* layout order.
CodeOfAllInteractions(layout) ==
    Concat([n \in DOMAIN Components(layout) |->
        Concat([k \in DOMAIN Interactions(Components(layout)[n]) |->
            Indented(Interactions(Components(layout)[n])[k])])])

\* The place of the line in the page of run i (0 when it is not there).
PlaceOf(i, line) ==
    IF \E k \in DOMAIN PageLines(i) : PageLines(i)[k] = line
    THEN CHOOSE k \in DOMAIN PageLines(i) : PageLines(i)[k] = line
    ELSE 0

\* C34: every interaction of every layout item gives its handler code to
\* the handlers region exactly once, grouped by item in layout order; the
\* region stands after the state declarations and before the render tree;
\* no handler code is lost, also when two items have the same id or an
\* item has no id.
C34_EveryHandlerCodeOnce ==
    \A i \in DOMAIN page_runs :
        Synthesized(i) =>
            /\ RegionCode(i) = CodeOfAllInteractions(CalledLayout)
            /\ RegionCode(i) # <<>> =>
                   /\ PlaceOf(i, <<"  // State management">>)
                          < PlaceOf(i, <<"  // Event handlers">>)
                   /\ PlaceOf(i, <<"  // Event handlers">>)
                          < PlaceOf(i, <<"  return (">>)

=============================================================================
